---- MODULE Spec2Model ----
(***************************************************************************)
(* A model of go-logr/logr's funcr package: the Formatter (value renderer, *)
(* key-value flattener, line builder, caller resolver, verbosity gate) and *)
(* the function-backed LogSink fnlogger built on it.                       *)
(*                                                                         *)
(* A Go string is a sequence of symbols; a symbol is one special character *)
(* (a quote, a backslash, a slash, a comma, a digit) or an indivisible run *)
(* of ordinary characters, so that quoting, escaping, joining and number   *)
(* formatting are computed symbol by symbol.                               *)
(* Go slices are (array, len, cap) triples over a heap of backing arrays,  *)
(* so that aliasing between loggers is something the checks can observe.   *)
(***************************************************************************)
EXTENDS Integers, Sequences, FiniteSets, TLC

(***************************************************************************)
(* Bounds of the model and input domains.                                  *)
(***************************************************************************)
\* Number of sinks that may be derived from the root sink.
MaxDerived == 2
\* Number of sinks there may be when goroutines derive sinks concurrently.
MaxConcSinks == 5

(***************************************************************************)
(* Strings.                                                                *)
(***************************************************************************)
sEmpty == << >>
sLogger == <<"logger">>
sTs == <<"ts">>
sCaller == <<"caller">>
sLevel == <<"level">>
sMsg == <<"msg">>
sError == <<"error">>
sNull == <<"null">>
sTrue == <<"true">>
sFalse == <<"false">>
sNoValue == <<"<no-value>">>
sNonStringKey == <<"<non-string-key>">>
sUnknown == <<"<unknown>">>
sUnhandled == <<"<unhandled-">>
sOmitEmpty == <<",", "omitempty">>

\* strconv.FormatUint(n, 10) / strconv.FormatInt(n, 10)
RECURSIVE FormatUint(_)
FormatUint(n) ==
    LET d == <<"0", "1", "2", "3", "4", "5", "6", "7", "8", "9">>[(n % 10) + 1]
    IN  IF n < 10 THEN <<d>> ELSE FormatUint(n \div 10) \o <<d>>

FormatInt(n) == IF n < 0 THEN <<"-">> \o FormatUint(-n) ELSE FormatUint(n)

FormatBool(b) == IF b THEN sTrue ELSE sFalse

Zeros(n) == [i \in 1..n |-> "0"]

\* strconv.FormatFloat(v, 'f', -1, bits) for v = mant * 10^exp, mant being the
\* digits of the shortest decimal that reads back as v (no trailing zero):
\* all digits, no exponent.
FormatFloat(mant, exp) ==
    LET d == FormatUint(IF mant < 0 THEN -mant ELSE mant)
        n == Len(d)
        sign == IF mant < 0 THEN <<"-">> ELSE << >>
    IN  IF mant = 0 THEN <<"0">>
        ELSE IF exp >= 0 THEN sign \o d \o Zeros(exp)
        ELSE IF n > -exp
          THEN sign \o SubSeq(d, 1, n + exp) \o <<".">> \o SubSeq(d, n + exp + 1, n)
        ELSE sign \o <<"0", ".">> \o Zeros(-exp - n) \o d

\* The byte 0x01, a control character, as one symbol of a string.
cSOH == "<0x01>"

\* strconv.Quote(s): s in double quotes, with '"' and '\' escaped by a
\* backslash and a control character written as \x and two hex digits;
\* every other character of the model's alphabet is printable ASCII and is
\* copied.
RECURSIVE QuoteBody(_)
QuoteBody(s) ==
    IF s = << >> THEN << >>
    ELSE (IF Head(s) \in {"\"", "\\"} THEN <<"\\", Head(s)>>
          ELSE IF Head(s) = cSOH THEN <<"\\", "x", "0", "1">>
          ELSE <<Head(s)>>)
         \o QuoteBody(Tail(s))

Quote(s) == <<"\"">> \o QuoteBody(s) \o <<"\"">>

\* strings.Index(s, ","): the first index (1-based) of c in s, or 0.
RECURSIVE IndexFrom(_, _, _)
IndexFrom(s, c, i) ==
    IF i > Len(s) THEN 0
    ELSE IF s[i] = c THEN i
    ELSE IndexFrom(s, c, i + 1)

Index(s, c) == IndexFrom(s, c, 1)

HasSuffix(s, suf) ==
    /\ Len(s) >= Len(suf)
    /\ SubSeq(s, Len(s) - Len(suf) + 1, Len(s)) = suf

Contains(s, sub) ==
    \E i \in 1..(Len(s) - Len(sub) + 1) : SubSeq(s, i, i + Len(sub) - 1) = sub

(***************************************************************************)
(* Go values (interface{}).  A value is a record whose kind field names    *)
(* its dynamic type; a nil interface has kind "nil".                       *)
(***************************************************************************)
VNil == [kind |-> "nil"]
VBool(b) == [kind |-> "bool", bool |-> b]
VStr(s) == [kind |-> "string", str |-> s]
VInt(n) == [kind |-> "int", num |-> n]
\* A value implementing error (and neither Marshaler nor Stringer).
VErr(s) == [kind |-> "error", msg |-> s]
\* A value of a kind the renderer does not classify (chan, func, ...).
VOther(k) == [kind |-> "other", kindName |-> k]
\* A struct value; fields are reflect.StructField + reflect.Value pairs.
VStruct(fs) == [kind |-> "struct", fields |-> fs]
Field(name, hasTag, tag, val) ==
    [name |-> name, pkgPath |-> sEmpty, canInterface |-> TRUE, hasTag |-> hasTag,
     tag |-> tag, anonymous |-> FALSE, typeKind |-> val.kind, val |-> val]
VUint(n) == [kind |-> "uint", num |-> n]
\* The float mant * 10^exp.
VFloat(mant, exp) == [kind |-> "float", mant |-> mant, exp |-> exp]
VSlice(elems) == [kind |-> "slice", elems |-> elems]
\* A map value; entries are the <<key, value>> pairs in the order the
\* iteration of the map yields them in the call that renders it.
VMap(entries) == [kind |-> "map", entries |-> entries]
\* A pointer; elem is what it points to, or the zero value of the type it
\* points to when the pointer is nil.
VPtr(isNil, elem) == [kind |-> "ptr", isNil |-> isNil, elem |-> elem]
\* The methods a defined type has for the renderer, all on value receivers:
\* each is << >> (no such method) or <<r>> with r what the method returns.
NoHooks == [marshal |-> << >>, string |-> << >>, error |-> << >>]
\* A value of a defined (named) type: its underlying value and its methods.
VNamed(under, hooks) == [kind |-> "named", under |-> under, hooks |-> hooks]

\* The methods in the method set of the value's dynamic type: those of a
\* defined type, and those of the pointer to one (a pointer type has the
\* value-receiver methods of the type it points to).
HooksOf(value) ==
    IF value.kind = "named" THEN value.hooks
    ELSE IF value.kind = "ptr" /\ value.elem.kind = "named" THEN value.elem.hooks
    ELSE NoHooks

\* A value-receiver method called through a nil pointer: the run-time panics
\* when it dereferences the pointer to copy the receiver.
NilReceiver(value) == value.kind = "ptr" /\ value.isNil

\* A panic: nothing in the package recovers, so it unwinds every caller up
\* to the application.  The symbol stands in the place of the result of the
\* call that panicked; a result that holds it was never returned.
sPanic == <<"<panic>">>
Unwinds(result) == \E i \in 1..Len(result) : result[i] = sPanic[1]

flagRawString == 1
flagRawStruct == 2

RECURSIVE isEmpty(_)
isEmpty(v) ==
    CASE v.kind = "string" -> Len(v.str) = 0
      [] v.kind = "bool" -> ~v.bool
      [] v.kind = "int" -> v.num = 0
      [] v.kind = "uint" -> v.num = 0
      [] v.kind = "float" -> v.mant = 0
      [] v.kind = "slice" -> Len(v.elems) = 0
      [] v.kind = "map" -> Len(v.entries) = 0
      [] v.kind = "ptr" -> v.isNil
      [] v.kind = "named" -> isEmpty(v.under)
      [] v.kind = "nil" -> TRUE
      [] OTHER -> FALSE

RECURSIVE prettyWithFlags(_, _)
RECURSIVE structFields(_, _, _)
RECURSIVE sliceElems(_, _)
RECURSIVE mapEntries(_, _)
RECURSIVE prettyKind(_, _)

\* The loop over the fields of a struct in prettyWithFlags, from field i
\* (1-based) on: what it writes to buf.
structFields(fields, i, flags) ==
    IF i > Len(fields) THEN << >>
    ELSE
      LET fld == fields[i]
          rest == structFields(fields, i + 1, flags)
          comma == IF fld.hasTag THEN Index(fld.tag, ",") ELSE 0
          tagName ==
            IF ~fld.hasTag THEN sEmpty
            ELSE IF comma # 0 THEN SubSeq(fld.tag, 1, comma - 1)
            ELSE fld.tag
          tagRest == IF comma # 0 THEN SubSeq(fld.tag, comma, Len(fld.tag)) ELSE sEmpty
          omitempty ==
            /\ comma # 0
            /\ \/ Contains(tagRest, sOmitEmpty \o <<",">>)
               \/ HasSuffix(tagRest, sOmitEmpty)
          sep == IF i > 1 THEN <<",">> ELSE << >>
      IN  IF fld.pkgPath # sEmpty THEN rest
          ELSE IF ~fld.canInterface THEN rest
          ELSE IF fld.hasTag /\ fld.tag = <<"-">> THEN rest
          ELSE IF omitempty /\ isEmpty(fld.val) THEN rest
          ELSE IF fld.anonymous /\ fld.typeKind = "struct" /\ tagName = sEmpty
            THEN sep \o prettyWithFlags(fld.val, flags \cup {flagRawStruct}) \o rest
          ELSE sep \o <<"\"">> \o (IF tagName = sEmpty THEN fld.name ELSE tagName)
                   \o <<"\"", ":">> \o prettyWithFlags(fld.val, {}) \o rest

\* The loop over the elements of a slice or array from element i (1-based).
sliceElems(elems, i) ==
    IF i > Len(elems) THEN << >>
    ELSE (IF i > 1 THEN <<",">> ELSE << >>) \o prettyWithFlags(elems[i], {})
         \o sliceElems(elems, i + 1)

\* The loop over the entries of a map, in the order the iteration yields.
mapEntries(entries, i) ==
    IF i > Len(entries) THEN << >>
    ELSE (IF i > 1 THEN <<",">> ELSE << >>)
         \o <<"\"">> \o prettyWithFlags(entries[i][1], {flagRawString}) \o <<"\"">>
         \o <<":">> \o prettyWithFlags(entries[i][2], {})
         \o mapEntries(entries, i + 1)

\* prettyWithFlags after the methods: the switch on the common types, then
\* the switch on the reflect.Kind, which is where a value of a defined type
\* arrives.
prettyKind(value, flags) ==
    CASE value.kind = "bool" -> FormatBool(value.bool)
      [] value.kind = "string" ->
            IF flagRawString \in flags THEN value.str ELSE Quote(value.str)
      [] value.kind = "int" -> FormatInt(value.num)
      [] value.kind = "uint" -> FormatUint(value.num)
      [] value.kind = "float" -> FormatFloat(value.mant, value.exp)
      [] value.kind = "nil" -> sNull
      [] value.kind = "named" /\ value.under.kind = "string" ->
            IF flagRawString \in flags THEN value.under.str
            ELSE <<"\"">> \o value.under.str \o <<"\"">>
      [] value.kind = "named" /\ value.under.kind # "string" ->
            prettyKind(value.under, flags)
      [] value.kind = "struct" ->
            (IF flagRawStruct \notin flags THEN <<"{">> ELSE << >>)
            \o structFields(value.fields, 1, flags)
            \o (IF flagRawStruct \notin flags THEN <<"}">> ELSE << >>)
      [] value.kind = "slice" -> <<"[">> \o sliceElems(value.elems, 1) \o <<"]">>
      [] value.kind = "map" -> <<"{">> \o mapEntries(value.entries, 1) \o <<"}">>
      [] value.kind = "ptr" ->
            IF value.isNil THEN sNull ELSE prettyWithFlags(value.elem, {})
      [] OTHER -> <<"\"">> \o sUnhandled \o value.kindName \o <<">", "\"">>

\* The second step of prettyWithFlags: a fmt.Stringer is replaced by its
\* String(), else an error by its Error().
prettySelfFormatted(value, flags) ==
    LET h == HooksOf(value)
    IN  IF value.kind = "error" THEN prettyKind(VStr(value.msg), flags)
        ELSE IF h.string # << >>
          THEN (IF NilReceiver(value) THEN sPanic
                ELSE prettyKind(VStr(h.string[1]), flags))
        ELSE IF h.error # << >>
          THEN (IF NilReceiver(value) THEN sPanic
                ELSE prettyKind(VStr(h.error[1]), flags))
        ELSE prettyKind(value, flags)

prettyWithFlags(value, flags) ==
    LET h == HooksOf(value)
    IN  IF h.marshal # << >>
        THEN (IF NilReceiver(value) THEN sPanic
              ELSE prettySelfFormatted(h.marshal[1], flags))
        ELSE prettySelfFormatted(value, flags)

pretty(value) == prettyWithFlags(value, {})

(***************************************************************************)
(* Go slices of interface{} over a heap of backing arrays.  heap is a      *)
(* sequence of arrays; a slice is [arr, len, cap] with arr = 0 for the nil *)
(* slice.                                                                  *)
(***************************************************************************)
NilSlice == [arr |-> 0, len |-> 0, cap |-> 0]

\* The elements a slice shows.
View(heap, sl) == IF sl.len = 0 THEN << >> ELSE SubSeq(heap[sl.arr], 1, sl.len)

\* sl[:n:n]
Slice3(sl, n) == [arr |-> sl.arr, len |-> n, cap |-> n]

RECURSIVE Zeroes(_)
Zeroes(n) == IF n = 0 THEN << >> ELSE <<VNil>> \o Zeroes(n - 1)

\* append(sl, elems...): in place when the capacity suffices, else into a new
\* array that holds spare more slots than needed (the growth policy of the
\* runtime decides how many).
GoAppend(heap, sl, elems, spare) ==
    IF elems = << >> THEN [heap |-> heap, slice |-> sl]
    ELSE IF sl.len + Len(elems) <= sl.cap
      THEN [heap |-> [heap EXCEPT ![sl.arr] =
                        SubSeq(@, 1, sl.len) \o elems
                        \o SubSeq(@, sl.len + Len(elems) + 1, sl.cap)],
            slice |-> [sl EXCEPT !.len = sl.len + Len(elems)]]
      ELSE [heap |-> Append(heap, View(heap, sl) \o elems \o Zeroes(spare)),
            slice |-> [arr |-> Len(heap) + 1, len |-> sl.len + Len(elems),
                       cap |-> sl.len + Len(elems) + spare]]

(***************************************************************************)
(* Formatter                                                               *)
(***************************************************************************)
outputKeyValue == 0
outputJSON == 1

None == 0
All == 1
Info == 2
Error == 3

\* newFormatter that leaves Verbosity out of the Formatter.
newFormatterNoVerbosity(opts, outfmt) ==
    [outputFormat |-> outfmt, prefix |-> sEmpty, values |-> NilSlice,
     valuesStr |-> sEmpty, depth |-> 0, logCaller |-> opts.LogCaller,
     logTimestamp |-> opts.LogTimestamp, verbosity |-> 0]

newFormatter(opts, outfmt) ==
    [outputFormat |-> outfmt, prefix |-> sEmpty, values |-> NilSlice,
     valuesStr |-> sEmpty, depth |-> 0, logCaller |-> opts.LogCaller,
     logTimestamp |-> opts.LogTimestamp, verbosity |-> opts.Verbosity]

NewFormatter(opts) == newFormatter(opts, outputKeyValue)

NewFormatterJSON(opts) == newFormatter(opts, outputJSON)

\* flatten that drops the last key of an odd list.
flattenListDropLast(kvList) ==
    IF Len(kvList) % 2 # 0 THEN SubSeq(kvList, 1, Len(kvList) - 1) ELSE kvList

\* The list flatten works on: the sentinel is appended to an odd list.
flattenList(kvList) ==
    IF Len(kvList) % 2 # 0 THEN Append(kvList, VStr(sNoValue)) ELSE kvList

\* The store flatten makes when it appends the sentinel to the slice it was
\* given: in place when that slice has spare capacity, else to an array of
\* its own that nobody else refers to.
flattenStore(heap, sl) ==
    IF sl.len % 2 # 0 /\ sl.len < sl.cap
    THEN GoAppend(heap, sl, <<VStr(sNoValue)>>, 0).heap
    ELSE heap

\* The loop of flatten from index i (0-based, as in the code) on.
RECURSIVE flattenFrom(_, _, _, _)
flattenFrom(f, kvList, i, continuing) ==
    IF i >= Len(kvList) THEN << >>
    ELSE
      LET k == IF kvList[i + 1].kind = "string" THEN kvList[i + 1].str
               ELSE sNonStringKey
          v == kvList[i + 2]
          sep == IF i > 0 \/ continuing
                 THEN (IF f.outputFormat = outputJSON THEN <<",">> ELSE <<" ">>)
                 ELSE << >>
      IN  sep \o <<"\"">> \o k \o <<"\"">>
          \o (IF f.outputFormat = outputJSON THEN <<":">> ELSE <<"=">>)
          \o pretty(v)
          \o flattenFrom(f, kvList, i + 2, continuing)

\* What flatten writes to buf.
flatten(f, kvList, continuing) == flattenFrom(f, flattenList(kvList), 0, continuing)

\* render that writes the saved values without the separator before them.
renderNoSeparator(f, builtins, args) ==
    LET open == IF f.outputFormat = outputJSON THEN <<"{">> ELSE << >>
        continuing == Len(builtins) > 0 \/ Len(f.valuesStr) > 0
        close == IF f.outputFormat = outputJSON THEN <<"}">> ELSE << >>
    IN  open \o flatten(f, builtins, FALSE) \o f.valuesStr
        \o flatten(f, args, continuing) \o close

render(f, builtins, args) ==
    LET open == IF f.outputFormat = outputJSON THEN <<"{">> ELSE << >>
        b == flatten(f, builtins, FALSE)
        continuing == Len(builtins) > 0
        saved ==
          IF Len(f.valuesStr) > 0
          THEN (IF continuing
                THEN (IF f.outputFormat = outputJSON THEN <<",">> ELSE <<" ">>)
                ELSE << >>) \o f.valuesStr
          ELSE << >>
        continuing2 == continuing \/ Len(f.valuesStr) > 0
        close == IF f.outputFormat = outputJSON THEN <<"}">> ELSE << >>
    IN  open \o b \o saved \o flatten(f, args, continuing2) \o close

\* filepath.Base
RECURSIVE StripSlashes(_)
StripSlashes(s) ==
    IF Len(s) > 0 /\ s[Len(s)] = "/" THEN StripSlashes(SubSeq(s, 1, Len(s) - 1)) ELSE s

RECURSIVE LastSlash(_, _)
LastSlash(s, i) == IF i = 0 \/ s[i] = "/" THEN i ELSE LastSlash(s, i - 1)

Base(path) ==
    IF path = sEmpty THEN <<".">>
    ELSE LET p == StripSlashes(path)
         IN  IF p = sEmpty THEN <<"/">>
             ELSE SubSeq(p, LastSlash(p, Len(p)) + 1, Len(p))

callerID(file, line) ==
    VStruct(<<Field(<<"File">>, TRUE, <<"file">>, VStr(file)),
              Field(<<"Line">>, TRUE, <<"line">>, VInt(line))>>)

\* runtime.Caller(skip) on a stack whose first frame is the function calling
\* it: the frame skip levels up, or ok = FALSE when the stack is shallower.
RuntimeCaller(stack, skip) ==
    IF skip + 1 <= Len(stack)
    THEN [ok |-> TRUE, file |-> stack[skip + 1].file, line |-> stack[skip + 1].line]
    ELSE [ok |-> FALSE, file |-> sEmpty, line |-> 0]

caller(f, stack) ==
    LET c == RuntimeCaller(stack, f.depth + 2)
    IN  IF ~c.ok THEN callerID(sUnknown, 0) ELSE callerID(Base(c.file), c.line)

FormatterInit(f, info) == [f EXCEPT !.depth = f.depth + info.CallDepth]

\* Enabled with a strict comparison.
EnabledStrict(f, level) == level < f.verbosity

Enabled(f, level) == level <= f.verbosity

GetDepth(f) == f.depth

\* What flatten leaves in the backing array of the caller's slice kv.
kvStore(kv) ==
    IF kv.arr = << >> THEN << >>
    ELSE flattenStore(<<kv.arr>>, [arr |-> 1, len |-> kv.len, cap |-> Len(kv.arr)])[1]

\* The list a caller's slice shows.
Passed(kv) == SubSeq(kv.arr, 1, kv.len)

\* FormatInfo that reports the caller only under the policy All.
FormatInfoCallerAllOnly(f, level, msg, kv, now, stack) ==
    LET a0 == IF f.outputFormat = outputJSON
              THEN <<VStr(sLogger), VStr(f.prefix)>> ELSE << >>
        prefix == IF f.outputFormat = outputJSON THEN sEmpty ELSE f.prefix
        a1 == IF f.logTimestamp THEN a0 \o <<VStr(sTs), VStr(now)>> ELSE a0
        a2 == IF f.logCaller = All
              THEN a1 \o <<VStr(sCaller), caller(f, stack)>> ELSE a1
        args == a2 \o <<VStr(sLevel), VInt(level), VStr(sMsg), VStr(msg)>>
    IN  [prefix |-> prefix, argsStr |-> render(f, args, Passed(kv)),
         kvArr |-> kvStore(kv)]

\* kv is the caller's slice [arr, len]; now is time.Now().Format(timestampFmt);
\* stack is the call stack on which f.caller() runs.  kvArr is the caller's
\* backing array when FormatInfo returns.
FormatInfo(f, level, msg, kv, now, stack) ==
    LET a0 == IF f.outputFormat = outputJSON
              THEN <<VStr(sLogger), VStr(f.prefix)>> ELSE << >>
        prefix == IF f.outputFormat = outputJSON THEN sEmpty ELSE f.prefix
        a1 == IF f.logTimestamp THEN a0 \o <<VStr(sTs), VStr(now)>> ELSE a0
        a2 == IF f.logCaller = All \/ f.logCaller = Info
              THEN a1 \o <<VStr(sCaller), caller(f, stack)>> ELSE a1
        args == a2 \o <<VStr(sLevel), VInt(level), VStr(sMsg), VStr(msg)>>
    IN  [prefix |-> prefix, argsStr |-> render(f, args, Passed(kv)),
         kvArr |-> kvStore(kv)]

\* FormatError that leaves the error field out when the error is nil.
FormatErrorOmitNil(f, err, msg, kv, now, stack) ==
    LET a0 == IF f.outputFormat = outputJSON
              THEN <<VStr(sLogger), VStr(f.prefix)>> ELSE << >>
        a1 == IF f.logTimestamp THEN a0 \o <<VStr(sTs), VStr(now)>> ELSE a0
        a2 == IF f.logCaller = All \/ f.logCaller = Error
              THEN a1 \o <<VStr(sCaller), caller(f, stack)>> ELSE a1
        args == a2 \o <<VStr(sMsg), VStr(msg)>>
                \o (IF err # VNil THEN <<VStr(sError), VStr(err.msg)>> ELSE << >>)
    IN  [prefix |-> f.prefix, argsStr |-> render(f, args, Passed(kv)),
         kvArr |-> kvStore(kv)]

\* err is VNil or a value implementing error.
FormatError(f, err, msg, kv, now, stack) ==
    LET a0 == IF f.outputFormat = outputJSON
              THEN <<VStr(sLogger), VStr(f.prefix)>> ELSE << >>
        a1 == IF f.logTimestamp THEN a0 \o <<VStr(sTs), VStr(now)>> ELSE a0
        a2 == IF f.logCaller = All \/ f.logCaller = Error
              THEN a1 \o <<VStr(sCaller), caller(f, stack)>> ELSE a1
        loggableErr == IF err # VNil THEN VStr(err.msg) ELSE VNil
        args == a2 \o <<VStr(sMsg), VStr(msg)>> \o <<VStr(sError), loggableErr>>
    IN  [prefix |-> f.prefix, argsStr |-> render(f, args, Passed(kv)),
         kvArr |-> kvStore(kv)]

\* AddName that joins the segments without the "/".
AddNameNoSlash(f, name) == [f EXCEPT !.prefix = f.prefix \o name]

AddName(f, name) ==
    [f EXCEPT !.prefix = (IF Len(f.prefix) > 0 THEN f.prefix \o <<"/">> ELSE f.prefix)
                         \o name]

\* AddValues appending in place when the saved slice has room.
AddValuesAppendInPlace(f, heap, kvList, spare) ==
    LET a == GoAppend(heap, f.values, kvList, spare)
    IN  [f |-> [f EXCEPT !.values = a.slice], heap |-> a.heap]

\* The first statements of AddValues on formatter f over heap:
\* n := len(f.values); f.values = append(f.values[:n:n], kvList...)
AddValuesAppend(f, heap, kvList, spare) ==
    LET n == f.values.len
        a == GoAppend(heap, Slice3(f.values, n), kvList, spare)
    IN  [f |-> [f EXCEPT !.values = a.slice], heap |-> a.heap]

\* AddValues that keeps the string it had.
AddValuesRenderKeep(f, heap) == [f |-> f, heap |-> heap]

\* The rest of AddValues: flatten f.values and keep the string.
AddValuesRender(f, heap) ==
    [f |-> [f EXCEPT !.valuesStr = flatten(f, View(heap, f.values), FALSE)],
     heap |-> flattenStore(heap, f.values)]

\* AddValues on formatter f over heap: the new formatter and the new heap.
AddValues(f, heap, kvList, spare) ==
    LET a == AddValuesAppend(f, heap, kvList, spare)
    IN  AddValuesRender(a.f, a.heap)

\* AddCallDepth that sets the depth instead of adding to it.
AddCallDepthAssign(f, depth) == [f EXCEPT !.depth = depth]

AddCallDepth(f, depth) == [f EXCEPT !.depth = f.depth + depth]

(***************************************************************************)
(* fnlogger: the LogSink over a Formatter and a write callback.  A sink is *)
(* its Formatter; the callback is the same for every sink derived from one *)
(* root.  A deriving method reports self, the sink it was called on as the *)
(* call leaves it, and ret, the sink it returns; a logging method reports  *)
(* writes, the calls it makes to the callback in order, and kvArr, the     *)
(* caller's backing array as the call leaves it.                           *)
(***************************************************************************)
newSink(formatter) == AddCallDepth(formatter, 1)

fnloggerWithName(l, name) == [self |-> l, ret |-> AddName(l, name)]

\* WithValues on a pointer receiver: the sink it is called on is the one changed.
fnloggerWithValuesInPlace(l, heap, kvList, spare) ==
    LET r == AddValues(l, heap, kvList, spare)
    IN  [self |-> r.f, ret |-> r.f, heap |-> r.heap]

fnloggerWithValues(l, heap, kvList, spare) ==
    LET r == AddValues(l, heap, kvList, spare)
    IN  [self |-> l, ret |-> r.f, heap |-> r.heap]

fnloggerWithCallDepth(l, depth) == [self |-> l, ret |-> AddCallDepth(l, depth)]

\* Info that checks the threshold itself before it formats and writes.
fnloggerInfoGated(l, level, msg, kv, now, stack) ==
    IF Enabled(l, level)
    THEN LET r == FormatInfo(l, level, msg, kv, now, stack)
         IN  [writes |-> <<[prefix |-> r.prefix, args |-> r.argsStr]>>, kvArr |-> r.kvArr]
    ELSE [writes |-> << >>, kvArr |-> kv.arr]

fnloggerInfo(l, level, msg, kv, now, stack) ==
    LET r == FormatInfo(l, level, msg, kv, now, stack)
    IN  [writes |-> <<[prefix |-> r.prefix, args |-> r.argsStr]>>, kvArr |-> r.kvArr]

\* Error that is written only when level 0 is enabled.
fnloggerErrorGated(l, err, msg, kv, now, stack) ==
    IF Enabled(l, 0)
    THEN LET r == FormatError(l, err, msg, kv, now, stack)
         IN  [writes |-> <<[prefix |-> r.prefix, args |-> r.argsStr]>>, kvArr |-> r.kvArr]
    ELSE [writes |-> << >>, kvArr |-> kv.arr]

fnloggerError(l, err, msg, kv, now, stack) ==
    LET r == FormatError(l, err, msg, kv, now, stack)
    IN  [writes |-> <<[prefix |-> r.prefix, args |-> r.argsStr]>>, kvArr |-> r.kvArr]

(***************************************************************************)
(* logr.Logger, the facade over a LogSink: New initialises the sink with   *)
(* the one frame the facade adds; Info asks the sink whether the logger's  *)
(* V level is enabled before it calls the sink; Error always calls it.     *)
(***************************************************************************)
LogrNew(sink) == FormatterInit(sink, [CallDepth |-> 1])

LoggerInfo(sink, level, msg, kv, now, stack) ==
    IF Enabled(sink, level)
    THEN fnloggerInfo(sink, level, msg, kv, now, stack)
    ELSE [writes |-> << >>, kvArr |-> kv.arr]

LoggerError(sink, err, msg, kv, now, stack) ==
    fnloggerError(sink, err, msg, kv, now, stack)

(***************************************************************************)
(* Input domains.                                                          *)
(***************************************************************************)
Formats == {outputKeyValue, outputJSON}
MessageClasses == {None, All, Info, Error}
Verbosities == {-1, 0, 1}
Levels == {0, 1}
\* Levels asked of LogSink.Enabled.
EnabledLevels == {-2, -1, 0, 1, 2}
Names == {<<"a">>, <<"b">>}
Msgs == {<<"m">>}
Errs == {VNil, VErr(<<"e">>)}
DepthAdds == {1}
\* Formatted clock readings (abbreviated).
Timestamps == {<<"t0">>}
\* Lists given to WithValues, each with the number of extra slots append
\* leaves behind the length when it allocates the copy.
SavedInputs ==
    {[list |-> <<VStr(<<"k">>), VInt(1)>>, spare |-> 1],
     [list |-> <<VStr(<<"j">>)>>, spare |-> 1]}
\* Slices given to Info and Error: the caller's backing array and the length
\* of the slice of it that is passed.
EmptySlice == [arr |-> << >>, len |-> 0]
EvenSlice == [arr |-> <<VStr(<<"x">>), VStr(<<"y">>)>>, len |-> 2]
OddSlice == [arr |-> <<VStr(<<"x">>), VStr(<<"y">>)>>, len |-> 1]
CallSlices == {EmptySlice, EvenSlice, OddSlice}
\* The calls of Info made: every level and every slice occur, the odd slice
\* with every level.
InfoInputs ==
    {[level |-> lv, kv |-> kv] : lv \in Levels, kv \in {OddSlice}}
    \cup {[level |-> 0, kv |-> EmptySlice], [level |-> 1, kv |-> EvenSlice]}
\* The calls of Error made: every error and every slice occur, the odd slice
\* with every error.
ErrorInputs ==
    {[err |-> e, kv |-> kv] : e \in Errs, kv \in {OddSlice}}
    \cup {[err |-> VNil, kv |-> EmptySlice], [err |-> VErr(<<"e">>), kv |-> EvenSlice]}
\* The frames of the application above the call of Info or Error.
AppStack ==
    <<[file |-> <<"d", "/", "a.go">>, line |-> 7],
      [file |-> <<"d", "/", "h.go">>, line |-> 12]>>

funcrFile == <<"funcr", "/", "funcr.go">>
logrFile == <<"logr.go">>

\* The call stack at f.caller() for a call of Info (isInfo) or Error, made on
\* the sink or through the facade.
StackAt(isInfo, facade) ==
    <<[file |-> funcrFile, line |-> 474],
      [file |-> funcrFile, line |-> IF isInfo THEN 513 ELSE 533],
      [file |-> funcrFile, line |-> IF isInfo THEN 130 ELSE 135]>>
    \o (IF facade THEN <<[file |-> logrFile, line |-> 1]>> ELSE << >>)
    \o AppStack

(***************************************************************************)
(* The state machine: one root sink, the sinks derived from it, and the    *)
(* log calls made on them by a caller that makes one call at a time.       *)
(***************************************************************************)
VARIABLES
    opts,       \* the Options and output format the root sink was built with
    arrays,     \* the heap of backing arrays of the sinks' saved values
    loggers,    \* the sinks: [f: Formatter, parent, chain]
    viaLogr,    \* whether the sinks are used through logr.Logger
    last,       \* the call in progress and its inputs
    callerArr,  \* the caller's backing array as the log call leaves it
    written,    \* the calls the write callback received in the log call
    procs,      \* the calls in progress of the goroutines that run concurrently
    rend,       \* the last call of a rendering function: its inputs and results
    testr       \* the testr logger of a test: its sinks, its t, the calls on it

vars == <<opts, arrays, loggers, viaLogr, last, callerArr, written, procs, rend, testr>>

NoTest == [t |-> "none"]

NoRender == [op |-> "none"]

NoCall ==
    [op |-> "none", sink |-> 0, level |-> 0, msg |-> sEmpty, err |-> VNil,
     kv |-> [arr |-> << >>, len |-> 0], now |-> sEmpty, result |-> FALSE]

Idle == last.op = "none"

\* The state after funcr.New / funcr.NewJSON (through logr.New, facade) or
\* after newSink alone, with the options drawn from the given set.
InitWith(facade, options) ==
    /\ arrays = << >>
    /\ viaLogr = facade
    /\ opts \in options
    /\ LET sink == newSink(newFormatter(opts, opts.outputFormat))
       IN  loggers = <<[f |-> IF viaLogr THEN LogrNew(sink) ELSE sink,
                        parent |-> 0, chain |-> << >>]>>
    /\ last = NoCall
    /\ callerArr = << >>
    /\ written = << >>
    /\ procs = << >>
    /\ rend = NoRender
    /\ testr = NoTest

\* Sink l runs a deriving method: the call leaves l as self and returns ret,
\* which becomes a new sink.
Derive(l, op, arg, self, ret) ==
    /\ Idle
    /\ Len(loggers) <= MaxDerived
    /\ loggers' = Append([loggers EXCEPT ![l].f = self],
                         [f |-> ret, parent |-> l,
                          chain |-> Append(loggers[l].chain, [op |-> op, arg |-> arg])])
    /\ UNCHANGED <<opts, viaLogr, last, callerArr, written, procs, rend, testr>>

WithName ==
    \E l \in 1..Len(loggers), name \in Names :
      LET r == fnloggerWithName(loggers[l].f, name)
      IN  /\ Derive(l, "WithName", name, r.self, r.ret)
          /\ UNCHANGED arrays

WithValues ==
    \E l \in 1..Len(loggers), in \in SavedInputs :
      LET r == fnloggerWithValues(loggers[l].f, arrays, in.list, in.spare)
      IN  /\ Derive(l, "WithValues", in.list, r.self, r.ret)
          /\ arrays' = r.heap

WithCallDepth ==
    \E l \in 1..Len(loggers), depth \in DepthAdds :
      LET r == fnloggerWithCallDepth(loggers[l].f, depth)
      IN  /\ Derive(l, "WithCallDepth", <<depth>>, r.self, r.ret)
          /\ UNCHANGED arrays

\* A log call on sink l with the caller's slice kv.
LogCall(l, op, level, msg, err, kv, now, r) ==
    /\ Idle
    /\ written' = r.writes
    /\ callerArr' = r.kvArr
    /\ last' = [op |-> op, sink |-> l, level |-> level, msg |-> msg, err |-> err,
                kv |-> kv, now |-> now, result |-> FALSE]
    /\ UNCHANGED <<opts, arrays, loggers, viaLogr, procs, rend, testr>>

SinkInfo ==
    \E l \in 1..Len(loggers), in \in InfoInputs, msg \in Msgs, now \in Timestamps :
      /\ ~viaLogr
      /\ LogCall(l, "Info", in.level, msg, VNil, in.kv, now,
                 fnloggerInfo(loggers[l].f, in.level, msg, in.kv, now, StackAt(TRUE, FALSE)))

SinkError ==
    \E l \in 1..Len(loggers), in \in ErrorInputs, msg \in Msgs, now \in Timestamps :
      /\ ~viaLogr
      /\ LogCall(l, "Error", 0, msg, in.err, in.kv, now,
                 fnloggerError(loggers[l].f, in.err, msg, in.kv, now, StackAt(FALSE, FALSE)))

\* LogSink.Enabled asked of sink l.
SinkEnabled ==
    \E l \in 1..Len(loggers), level \in EnabledLevels :
      /\ Idle
      /\ last' = [NoCall EXCEPT !.op = "Enabled", !.sink = l, !.level = level,
                                !.result = Enabled(loggers[l].f, level)]
      /\ UNCHANGED <<opts, arrays, loggers, viaLogr, callerArr, written, procs, rend, testr>>

FacadeInfo ==
    \E l \in 1..Len(loggers), in \in InfoInputs, msg \in Msgs, now \in Timestamps :
      /\ viaLogr
      /\ LogCall(l, "Info", in.level, msg, VNil, in.kv, now,
                 LoggerInfo(loggers[l].f, in.level, msg, in.kv, now, StackAt(TRUE, TRUE)))

FacadeError ==
    \E l \in 1..Len(loggers), in \in ErrorInputs, msg \in Msgs, now \in Timestamps :
      /\ viaLogr
      /\ LogCall(l, "Error", 0, msg, in.err, in.kv, now,
                 LoggerError(loggers[l].f, in.err, msg, in.kv, now, StackAt(FALSE, TRUE)))

\* The call returns to its caller.
Return ==
    /\ ~Idle
    /\ last' = NoCall
    /\ callerArr' = << >>
    /\ written' = << >>
    /\ UNCHANGED <<opts, arrays, loggers, viaLogr, procs, rend, testr>>

(***************************************************************************)
(* Spec: sinks used directly (as the package's tests do), under every      *)
(* output format with every caller policy, the timestamp on in half of     *)
(* these (every format and every policy occurs with and without it).       *)
(***************************************************************************)
SinkOptions ==
    {[LogCaller |-> lc, LogTimestamp |-> ((outfmt + lc) % 2 = 1), Verbosity |-> 0,
      outputFormat |-> outfmt] : outfmt \in Formats, lc \in MessageClasses}

Init == InitWith(FALSE, SinkOptions)

Next ==
    \/ WithName
    \/ WithValues
    \/ WithCallDepth
    \/ SinkInfo
    \/ SinkError
    \/ Return

Spec == Init /\ [][Next]_vars

(***************************************************************************)
(* SpecGate: sinks used through logr.Logger, under every output format    *)
(* and verbosity threshold.                                                *)
(***************************************************************************)
GateOptions ==
    {[LogCaller |-> None, LogTimestamp |-> FALSE, Verbosity |-> v,
      outputFormat |-> outfmt] : outfmt \in Formats, v \in Verbosities}

InitGate == InitWith(TRUE, GateOptions)

NextGate ==
    \/ WithName
    \/ WithValues
    \/ WithCallDepth
    \/ SinkEnabled
    \/ FacadeInfo
    \/ FacadeError
    \/ Return

SpecGate == InitGate /\ [][NextGate]_vars

(***************************************************************************)
(* SpecConc: two goroutines use sinks derived from a common ancestor at    *)
(* the same time.  Each goroutine calls methods of its own sink and of the *)
(* sinks it derives from it; a call runs statement by statement, and the   *)
(* statements of the two goroutines interleave in every order.  procs[g]   *)
(* is the call goroutine g is in: the method, its arguments, its receiver  *)
(* copy f (the methods have value receivers), and where it stands.         *)
(***************************************************************************)
Goroutines == {1, 2}

IdleFrame ==
    [pc |-> "idle", sink |-> 0, op |-> "none", arg |-> << >>, spare |-> 0,
     f |-> << >>, level |-> 0, msg |-> sEmpty, err |-> VNil, kv |-> EmptySlice,
     kvArr |-> << >>, out |-> << >>]

ConcOptions ==
    {[LogCaller |-> None, LogTimestamp |-> FALSE, Verbosity |-> 0,
      outputFormat |-> outfmt] : outfmt \in Formats}

\* What the goroutines derive sinks with.
ConcNames == {<<"b">>}
ConcSavedInputs == {[list |-> <<VStr(<<"j">>)>>, spare |-> 1]}

\* The calls of Info and Error the goroutines make.
ConcLogInputs ==
    {[op |-> "Info", level |-> 0, err |-> VNil, kv |-> OddSlice],
     [op |-> "Error", level |-> 0, err |-> VNil, kv |-> EmptySlice]}

\* A sink derived from sink l of list sinks over heap, for goroutine g, by
\* WithName (the new sink shares the backing array of l) or by WithValues.
Sibling(sinks, heap, l, g, op, arg, spare) ==
    LET r == IF op = "WithName"
             THEN [ret |-> fnloggerWithName(sinks[l].f, arg).ret, heap |-> heap]
             ELSE fnloggerWithValues(sinks[l].f, heap, arg, spare)
    IN  [sink |-> [f |-> r.ret, parent |-> l, by |-> g,
                   chain |-> Append(sinks[l].chain, [op |-> op, arg |-> arg])],
         heap |-> r.heap]

\* The ways the first sibling is derived from the common ancestor; the
\* second one is derived by WithName.
SiblingInputs ==
    {[op |-> "WithName", arg |-> <<"a">>, spare |-> 0],
     [op |-> "WithValues", arg |-> <<VStr(<<"j">>)>>, spare |-> 1]}

\* The common ancestor is a sink derived from a new sink by WithValues, so
\* that it has saved values in a backing array; each goroutine has a sink
\* of its own derived from it.
InitConc ==
    /\ opts \in ConcOptions
    /\ viaLogr = FALSE
    /\ \E in \in SavedInputs, in1 \in SiblingInputs :
         LET root == newSink(newFormatter(opts, opts.outputFormat))
             r == fnloggerWithValues(root, << >>, in.list, in.spare)
             ancestor == [f |-> r.ret, parent |-> 0, by |-> 0,
                          chain |-> <<[op |-> "WithValues", arg |-> in.list]>>]
             s1 == Sibling(<<ancestor>>, r.heap, 1, 1, in1.op, in1.arg, in1.spare)
             s2 == Sibling(<<ancestor>>, s1.heap, 1, 2, "WithName", <<"a">>, 0)
         IN  /\ arrays = s2.heap
             /\ loggers = <<ancestor, s1.sink, s2.sink>>
    /\ last = NoCall
    /\ callerArr = << >>
    /\ written = << >>
    /\ procs = [g \in Goroutines |-> IdleFrame]
    /\ rend = NoRender
    /\ testr = NoTest

\* The sinks goroutine g uses: those derived for it and by it.
Held(g) == {l \in 1..Len(loggers) : loggers[l].by = g}

\* The calls in progress that will return a new sink.
Deriving == {g \in Goroutines : procs[g].pc \in {"append", "flatten", "return"}}

ConcStep(g, frame) ==
    /\ procs' = [procs EXCEPT ![g] = frame]
    /\ UNCHANGED <<opts, viaLogr, last, callerArr, written, rend, testr>>

\* g calls WithName or WithCallDepth on sink l: the receiver is copied and
\* the copy is changed.
ConcCallLocal(g) ==
    \E l \in Held(g) :
      /\ procs[g].pc = "idle"
      /\ Len(loggers) + Cardinality(Deriving) < MaxConcSinks
      /\ \/ \E name \in ConcNames :
              ConcStep(g, [IdleFrame EXCEPT !.pc = "return", !.sink = l,
                             !.op = "WithName", !.arg = name,
                             !.f = fnloggerWithName(loggers[l].f, name).ret])
         \/ \E depth \in DepthAdds :
              ConcStep(g, [IdleFrame EXCEPT !.pc = "return", !.sink = l,
                             !.op = "WithCallDepth", !.arg = <<depth>>,
                             !.f = fnloggerWithCallDepth(loggers[l].f, depth).ret])
      /\ UNCHANGED <<arrays, loggers>>

\* g calls WithValues on sink l: the receiver is copied.
ConcCallWithValues(g) ==
    \E l \in Held(g), in \in ConcSavedInputs :
      /\ procs[g].pc = "idle"
      /\ Len(loggers) + Cardinality(Deriving) < MaxConcSinks
      /\ ConcStep(g, [IdleFrame EXCEPT !.pc = "append", !.sink = l,
                        !.op = "WithValues", !.arg = in.list, !.spare = in.spare,
                        !.f = loggers[l].f])
      /\ UNCHANGED <<arrays, loggers>>

\* AddValues in g's call appends to the copy's saved values.
ConcAppend(g) ==
    /\ procs[g].pc = "append"
    /\ LET a == AddValuesAppend(procs[g].f, arrays, procs[g].arg, procs[g].spare)
       IN  /\ arrays' = a.heap
           /\ ConcStep(g, [procs[g] EXCEPT !.pc = "flatten", !.f = a.f])
    /\ UNCHANGED loggers

\* AddValues in g's call flattens the copy's saved values.
ConcFlatten(g) ==
    /\ procs[g].pc = "flatten"
    /\ LET a == AddValuesRender(procs[g].f, arrays)
       IN  /\ arrays' = a.heap
           /\ ConcStep(g, [procs[g] EXCEPT !.pc = "return", !.f = a.f])
    /\ UNCHANGED loggers

\* g's deriving call returns the address of the copy: a new sink.
ConcReturn(g) ==
    /\ procs[g].pc = "return"
    /\ loggers' = Append(loggers,
                         [f |-> procs[g].f, parent |-> procs[g].sink, by |-> g,
                          chain |-> Append(loggers[procs[g].sink].chain,
                                           [op |-> procs[g].op, arg |-> procs[g].arg])])
    /\ ConcStep(g, IdleFrame)
    /\ UNCHANGED arrays

\* g calls Info or Error on sink l with a slice of its own: the receiver is
\* copied and the line is formatted.
ConcFormat(g) ==
    \E l \in Held(g), in \in ConcLogInputs, msg \in Msgs, now \in Timestamps :
      /\ procs[g].pc = "idle"
      /\ LET r == IF in.op = "Info"
                  THEN fnloggerInfo(loggers[l].f, in.level, msg, in.kv, now,
                                    StackAt(TRUE, FALSE))
                  ELSE fnloggerError(loggers[l].f, in.err, msg, in.kv, now,
                                     StackAt(FALSE, FALSE))
         IN  ConcStep(g, [IdleFrame EXCEPT !.pc = "write", !.sink = l, !.op = in.op,
                            !.f = loggers[l].f, !.level = in.level, !.msg = msg,
                            !.err = in.err,
                            !.kv = in.kv, !.kvArr = r.kvArr, !.out = r.writes])
      /\ UNCHANGED <<arrays, loggers>>

\* The write callback runs in g's call, and the call returns.
ConcWrite(g) ==
    /\ procs[g].pc = "write"
    /\ ConcStep(g, IdleFrame)
    /\ UNCHANGED <<arrays, loggers>>

NextConc ==
    \E g \in Goroutines :
      \/ ConcCallLocal(g)
      \/ ConcCallWithValues(g)
      \/ ConcAppend(g)
      \/ ConcFlatten(g)
      \/ ConcReturn(g)
      \/ ConcFormat(g)
      \/ ConcWrite(g)

SpecConc == InitConc /\ [][NextConc]_vars

(***************************************************************************)
(* SpecCaller: sinks used directly under every caller policy in both       *)
(* output formats, derived with WithCallDepth by depths that sum to less   *)
(* and to more than the application has frames.                            *)
(***************************************************************************)
CallerDepths == {0, 1, 2}

CallerOptions ==
    {[LogCaller |-> lc, LogTimestamp |-> FALSE, Verbosity |-> 0,
      outputFormat |-> outfmt] : outfmt \in Formats, lc \in MessageClasses}

WithCallDepthBy ==
    \E l \in 1..Len(loggers), depth \in CallerDepths :
      LET r == fnloggerWithCallDepth(loggers[l].f, depth)
      IN  /\ Derive(l, "WithCallDepth", <<depth>>, r.self, r.ret)
          /\ UNCHANGED arrays

InitCaller == InitWith(FALSE, CallerOptions)

NextCaller ==
    \/ WithCallDepthBy
    \/ SinkInfo
    \/ SinkError
    \/ Return

SpecCaller == InitCaller /\ [][NextCaller]_vars

(***************************************************************************)
(* SpecRender: the rendering functions of a Formatter of either output     *)
(* format, applied to values and to key/value lists drawn from bounded     *)
(* sets.                                                                   *)
(***************************************************************************)
MaxListLen == 3

RenderOptions ==
    {[LogCaller |-> All, LogTimestamp |-> FALSE, Verbosity |-> 0,
      outputFormat |-> outfmt] : outfmt \in Formats}

\* A defined string type without methods.
substr(s) == VNamed(VStr(s), NoHooks)

\* The elements of the lists given to flatten: strings (keys and values), a
\* number, nil, a struct, and a value of a defined string type, which is
\* not a string to the type assertion on a key.
ListElems ==
    {VStr(<<"k">>), VStr(<<"a", " ", "b">>), VInt(5), VNil, substr(<<"s">>),
     VStruct(<<Field(<<"X">>, FALSE, sEmpty, VInt(1))>>)}

\* The types of the package's tests that carry methods, all on value
\* receivers: Tmarshaler has MarshalLog, String and Error; Tstringer has
\* String and Error; Terror has Error alone.
Tmarshaler(s) ==
    VNamed(VStr(s),
           [marshal |-> <<VStruct(<<Field(<<"Inner">>, FALSE, sEmpty, VStr(<<"M">>))>>)>>,
            string |-> <<<<"S", "!">>>>, error |-> <<<<"E", "!">>>>])
Tstringer(s) ==
    VNamed(VStr(s), [marshal |-> << >>, string |-> <<<<"S">>>>, error |-> <<<<"E", "!">>>>])
Terror(s) ==
    VNamed(VStr(s), [marshal |-> << >>, string |-> << >>, error |-> <<<<"E">>>>])

RECURSIVE ListsUpTo(_)
ListsUpTo(n) ==
    IF n = 0 THEN {<< >>}
    ELSE LET shorter == ListsUpTo(n - 1)
         IN  shorter \cup {Append(l, e) : l \in {x \in shorter : Len(x) = n - 1},
                                          e \in ListElems}

KvLists == ListsUpTo(MaxListLen)

\* One call of a rendering function, made once in a behaviour.
Rendered(rec) ==
    /\ rend = NoRender
    /\ rend' = rec
    /\ UNCHANGED <<opts, arrays, loggers, viaLogr, last, callerArr, written, procs, testr>>

ApplyFlatten ==
    \E kvList \in KvLists, continuing \in BOOLEAN :
      Rendered([op |-> "flatten", kvList |-> kvList, continuing |-> continuing,
                out |-> flatten(loggers[1].f, kvList, continuing)])

\* The orders in which the iteration of a map can yield its entries.
MapOrders(entries) ==
    {[i \in 1..Len(entries) |-> entries[p[i]]] : p \in Permutations(1..Len(entries))}

\* The sequences whose element i is drawn from sets[i].
SeqsOver(sets) ==
    {q \in [1..Len(sets) -> UNION {sets[i] : i \in 1..Len(sets)}] :
       \A i \in 1..Len(sets) : q[i] \in sets[i]}

\* A value as one call of the renderer can meet it: every map in it with one
\* of the orders its iteration can yield (the values of a map hold no maps
\* here).
RECURSIVE Orders(_)

\* Orders in which the elements of a slice, too, come in any order.
OrdersAlsoOfSlices(v) ==
    CASE v.kind = "map" -> {VMap(es) : es \in MapOrders(v.entries)}
      [] v.kind = "slice" -> {VSlice(es) : es \in MapOrders(v.elems)}
      [] v.kind = "struct" ->
            {VStruct([i \in 1..Len(v.fields) |-> [v.fields[i] EXCEPT !.val = vals[i]]]) :
               vals \in SeqsOver([i \in 1..Len(v.fields) |-> Orders(v.fields[i].val)])}
      [] v.kind = "ptr" -> {VPtr(v.isNil, e) : e \in Orders(v.elem)}
      [] OTHER -> {v}

Orders(v) ==
    CASE v.kind = "map" -> {VMap(es) : es \in MapOrders(v.entries)}
      [] v.kind = "slice" ->
            {VSlice(es) : es \in SeqsOver([i \in 1..Len(v.elems) |-> Orders(v.elems[i])])}
      [] v.kind = "struct" ->
            {VStruct([i \in 1..Len(v.fields) |-> [v.fields[i] EXCEPT !.val = vals[i]]]) :
               vals \in SeqsOver([i \in 1..Len(v.fields) |-> Orders(v.fields[i].val)])}
      [] v.kind = "ptr" -> {VPtr(v.isNil, e) : e \in Orders(v.elem)}
      [] OTHER -> {v}

\* Values with every combination of the three methods, MarshalLog returning
\* a struct, a value that has String(), or a value that has MarshalLog()
\* itself.
MarshalResults ==
    {VStruct(<<Field(<<"Inner">>, FALSE, sEmpty, VStr(<<"M">>))>>),
     Tstringer(<<"r">>), Tmarshaler(<<"r">>)}

HookValues ==
    {VNamed(VStr(<<"u">>), [marshal |-> m, string |-> st, error |-> e]) :
       m \in {<< >>} \cup {<<r>> : r \in MarshalResults},
       st \in {<< >>, <<<<"S">>>>},
       e \in {<< >>, <<<<"E">>>>}}

\* Structs of exported fields A, B, ... of type int, each with no json tag
\* or one of the tags of the package's tests, and an empty or non-empty
\* value.
MaxFields == 2

FieldNames == <<<<"A">>, <<"B">>, <<"C">>, <<"D">>>>

JsonTags ==
    {<<"n">>, <<"-">>, <<"-", ",">>, <<"n", ",", "omitempty">>, <<",">>,
     <<",", "omitempty">>}

TaggedFields(i) ==
    {Field(FieldNames[i], FALSE, sEmpty, VInt(n)) : n \in {0, 7}}
    \cup {Field(FieldNames[i], TRUE, t, VInt(n)) : t \in JsonTags, n \in {0, 7}}

TaggedStructs ==
    UNION {{VStruct(fs) : fs \in SeqsOver([i \in 1..k |-> TaggedFields(i)])} :
             k \in 1..MaxFields}

\* An anonymous (embedded) field of a struct type, without a tag.
Embedded(typeName, val) ==
    [Field(typeName, FALSE, sEmpty, val) EXCEPT !.anonymous = TRUE]

\* Structs to embed: without fields, with one and with two, and one that
\* embeds a struct itself, with and without fields.
InnerStructs ==
    LET none == VStruct(<< >>)
        one == VStruct(<<Field(<<"X">>, FALSE, sEmpty, VInt(1))>>)
        two == VStruct(<<Field(<<"X">>, FALSE, sEmpty, VInt(1)),
                         Field(<<"Y">>, FALSE, sEmpty, VInt(2))>>)
    IN  {none, one, two,
         VStruct(<<Embedded(<<"T1">>, one), Field(<<"Z">>, FALSE, sEmpty, VInt(3))>>),
         VStruct(<<Field(<<"Z">>, FALSE, sEmpty, VInt(3)), Embedded(<<"T0">>, none)>>)}

\* Structs with an embedded struct alone, before or after a field of their
\* own, or between two.
EmbeddingStructs ==
    LET outer == Field(<<"Outer">>, FALSE, sEmpty, VStr(<<"o">>))
        tail == Field(<<"Last">>, FALSE, sEmpty, VInt(9))
    IN  UNION {{VStruct(<<Embedded(<<"T">>, in)>>),
                VStruct(<<Embedded(<<"T">>, in), outer>>),
                VStruct(<<outer, Embedded(<<"T">>, in)>>),
                VStruct(<<outer, Embedded(<<"T">>, in), tail>>)} : in \in InnerStructs}

\* Values of the primitive types: the booleans; signed and unsigned
\* integers at the ends of the 8 and 16 bit ranges; floats with few and many
\* digits before and after the point; strings with a quote, a backslash, a
\* control character and the characters HTML gives a meaning.
PrimitiveValues ==
    {VBool(b) : b \in BOOLEAN}
    \cup {VInt(n) : n \in {0, 93, -93, -128, 127, -32768, 32767}}
    \cup {VUint(n) : n \in {0, 93, 255, 65535}}
    \cup {VFloat(m, e) : m \in {1, -15, 9376}, e \in {-7, -6, -2, 0, 17, 20, 21}}
    \cup {VFloat(0, 0)}
    \cup {VStr(t) : t \in {sEmpty, <<"a">>, <<"a", " ", "b">>, <<"a", "\"", "b">>,
                          <<"a", "\\", "b">>, <<cSOH>>, <<"a", "<", "b">>,
                          <<"a", ">", "b">>, <<"a", "&", "b">>}}

\* Maps without, with one and with two keys, and a slice, a struct and a
\* pointer holding each; a slice of numbers.
MapValues ==
    LET maps == {VMap(<< >>), VMap(<<<<VStr(<<"a">>), VInt(1)>>>>),
                 VMap(<<<<VStr(<<"a">>), VInt(1)>>, <<VStr(<<"b">>), VInt(2)>>>>)}
    IN  maps
        \cup {VSlice(<<VInt(3), m>>) : m \in maps}
        \cup {VStruct(<<Field(<<"M">>, FALSE, sEmpty, m)>>) : m \in maps}
        \cup {VPtr(FALSE, m) : m \in maps}
        \cup {VSlice(<<VInt(1), VInt(2)>>)}

PrettyValues ==
    HookValues \cup {VPtr(FALSE, v) : v \in HookValues}
    \cup TaggedStructs \cup EmbeddingStructs
    \cup PrimitiveValues \cup {VNil, substr(<<"s">>), VOther(<<"chan">>)}
    \cup {substr(t) : t \in {sEmpty, <<"a", " ", "b">>, <<"a", "\"", "b">>,
                              <<"a", "\\", "b">>, <<cSOH>>}}
    \cup MapValues

\* pretty applied to a value, twice, and to a pointer to the value and to
\* the nil pointer of that type.
ApplyPretty ==
    \E v \in PrettyValues :
      \E v1 \in Orders(v), v2 \in Orders(v), v3 \in Orders(v) :
        Rendered([op |-> "pretty", value |-> v, out |-> pretty(v1), again |-> pretty(v2),
                  ptrOut |-> pretty(VPtr(FALSE, v3)), nilOut |-> pretty(VPtr(TRUE, v))])

\* The lists given to Info and Error: none, an odd one, one with a key that
\* is no string, and values of an unclassified kind, nil pointers to types
\* without and with methods, and a pointer to a value with a method.
LogLists ==
    {<< >>, <<VStr(<<"k">>)>>, <<VInt(5), VStr(<<"v">>)>>,
     <<VStr(<<"a", "\"", "b">>), VStr(<<"v", "\"">>)>>,
     <<VStr(<<"a", "\\", "b">>), VInt(1)>>}
    \cup {<<VStr(<<"k">>), v>> :
            v \in {VOther(<<"chan">>), VPtr(TRUE, VInt(0)), VPtr(FALSE, Tstringer(<<"x">>)),
                   VPtr(TRUE, Tstringer(sEmpty)), VPtr(TRUE, Tmarshaler(sEmpty)),
                   VPtr(TRUE, Terror(sEmpty))}}

\* Call depths added to the sink: none, and more than the stack has frames.
LogDepths == {0, 3}

\* Info or Error called on a sink: the line is handed to the write callback
\* when the call gets there; a panic on the way unwinds into the caller.
LogMsgs == {<<"m">>, <<"m", "\"", "q">>}

ApplyLog ==
    \E isInfo \in BOOLEAN, err \in Errs, kvList \in LogLists, depth \in LogDepths,
       msg \in LogMsgs :
      LET l == fnloggerWithCallDepth(loggers[1].f, depth).ret
          kv == [arr |-> kvList, len |-> Len(kvList)]
          r == IF isInfo
               THEN fnloggerInfo(l, 0, msg, kv, sEmpty, StackAt(TRUE, FALSE))
               ELSE fnloggerError(l, err, msg, kv, sEmpty, StackAt(FALSE, FALSE))
          unwound == Unwinds(r.writes[1].args)
      IN  Rendered([op |-> "log", isInfo |-> isInfo, err |-> err, kvList |-> kvList,
                    depth |-> depth, msg |-> msg, unwound |-> unwound,
                    writes |-> IF unwound THEN << >> ELSE r.writes])

\* LogSink.Enabled asked of the root sink.
ApplyEnabled ==
    \E level \in EnabledLevels :
      Rendered([op |-> "Enabled", level |-> level,
                result |-> Enabled(loggers[1].f, level)])

\* A reference to the cell id of a graph of values: a pointer to the cell
\* (ptr), or a slice or map header over the cell's storage.
VRef(id, ptr) == [kind |-> "ref", id |-> id, ptr |-> ptr]

\* The run-time ends the program when the stack of a goroutine outgrows its
\* limit; no string is returned.
sStackOverflow == <<"<stack overflow>">>

\* Whether prettyWithFlags, which follows every pointer, interface, slice
\* element, map entry and struct field it meets and keeps no record of where
\* it has been, goes on without end on value over cells.  A path through a
\* graph without cycles follows each cell at most once, so fuel starts at
\* one more than the number of cells.
RECURSIVE Endless(_, _, _)
Endless(value, cells, fuel) ==
    CASE value.kind = "ref" ->
            IF fuel = 0 THEN TRUE ELSE Endless(cells[value.id], cells, fuel - 1)
      [] value.kind = "ptr" -> ~value.isNil /\ Endless(value.elem, cells, fuel)
      [] value.kind = "struct" ->
            \E i \in 1..Len(value.fields) : Endless(value.fields[i].val, cells, fuel)
      [] value.kind = "slice" ->
            \E i \in 1..Len(value.elems) : Endless(value.elems[i], cells, fuel)
      [] value.kind = "map" ->
            \E i \in 1..Len(value.entries) : Endless(value.entries[i][2], cells, fuel)
      [] OTHER -> FALSE

\* The value a graph without cycles is to prettyWithFlags: each reference
\* replaced by what it refers to.
RECURSIVE Unfold(_, _)
Unfold(value, cells) ==
    CASE value.kind = "ref" ->
            IF value.ptr THEN VPtr(FALSE, Unfold(cells[value.id], cells))
            ELSE Unfold(cells[value.id], cells)
      [] value.kind = "ptr" ->
            IF value.isNil THEN value ELSE VPtr(FALSE, Unfold(value.elem, cells))
      [] value.kind = "struct" ->
            VStruct([i \in 1..Len(value.fields) |->
                       [value.fields[i] EXCEPT
                          !.val = Unfold(@, cells),
                          !.typeKind = Unfold(value.fields[i].val, cells).kind]])
      [] value.kind = "slice" ->
            VSlice([i \in 1..Len(value.elems) |-> Unfold(value.elems[i], cells)])
      [] value.kind = "map" ->
            VMap([i \in 1..Len(value.entries) |->
                    <<value.entries[i][1], Unfold(value.entries[i][2], cells)>>])
      [] OTHER -> value

Node(next) == VStruct(<<Field(<<"Next">>, FALSE, sEmpty, next)>>)

\* Graphs of values: a struct pointing to itself, a slice and a map holding
\* themselves, an interface holding a pointer to itself, a ring of two
\* structs; and, without cycles, a list of two structs, a slice holding one
\* pointer twice, and values without references.
ValueGraphs ==
    {[root |-> VRef(1, TRUE), cells |-> <<Node(VRef(1, TRUE))>>, cyclic |-> TRUE],
     [root |-> VRef(1, FALSE), cells |-> <<VSlice(<<VInt(1), VRef(1, FALSE)>>)>>,
      cyclic |-> TRUE],
     [root |-> VRef(1, FALSE),
      cells |-> <<VMap(<<<<VStr(<<"self">>), VRef(1, FALSE)>>>>)>>, cyclic |-> TRUE],
     [root |-> VRef(1, TRUE), cells |-> <<VRef(1, TRUE)>>, cyclic |-> TRUE],
     [root |-> VRef(1, TRUE), cells |-> <<Node(VRef(2, TRUE)), Node(VRef(1, TRUE))>>,
      cyclic |-> TRUE],
     [root |-> VSlice(<<VInt(1), VRef(2, TRUE)>>),
      cells |-> <<VInt(0), Node(VRef(2, TRUE))>>, cyclic |-> TRUE],
     [root |-> VRef(1, TRUE),
      cells |-> <<Node(VRef(2, TRUE)), Node(VPtr(TRUE, VNil))>>, cyclic |-> FALSE],
     [root |-> VSlice(<<VRef(1, TRUE), VRef(1, TRUE)>>), cells |-> <<VInt(7)>>,
      cyclic |-> FALSE],
     [root |-> VRef(2, FALSE),
      cells |-> <<VInt(7), VSlice(<<VRef(1, TRUE), VRef(1, TRUE), VRef(1, TRUE)>>)>>,
      cyclic |-> FALSE]}
    \cup {[root |-> v, cells |-> << >>, cyclic |-> FALSE] :
            v \in {VNil, VInt(1), VStr(<<"s">>), Node(VPtr(TRUE, VNil))}}

\* render of the pair "k", value, for a value that is the root of a graph.
ApplyGraph ==
    \E g \in ValueGraphs :
      Rendered([op |-> "graph", root |-> g.root, cells |-> g.cells, cyclic |-> g.cyclic,
                out |-> IF Endless(g.root, g.cells, Len(g.cells) + 1)
                        THEN sStackOverflow
                        ELSE render(loggers[1].f, << >>,
                                    <<VStr(<<"k">>), Unfold(g.root, g.cells)>>)])

InitRender == InitWith(FALSE, RenderOptions)

NextRender ==
    \/ ApplyFlatten
    \/ ApplyLog
    \/ ApplyEnabled
    \/ ApplyPretty
    \/ ApplyGraph

SpecRender == InitRender /\ [][NextRender]_vars

(***************************************************************************)
(* SpecTestr: the testr logger.  Every sink derived from the one built by  *)
(* newLoggerInterfaceWithOptions shares its atomic.Value t, which holds    *)
(* the test object until the cleanup of the test stores the marker noT.    *)
(* Goroutines run GetUnderlying, GetCallStackHelper (and the helper it     *)
(* returns), Info and Error statement by statement, interleaved with the   *)
(* cleanup; each goroutine makes one call, and calls lists, by goroutine,   *)
(* the calls the test object receives.                                     *)
(***************************************************************************)
noT == "noT"

\* GetUnderlying that hands out the test object whatever t holds.
testrGetUnderlyingStale(tval) == "T"

\* GetUnderlying on the value loaded from t: nil once the marker is stored.
testrGetUnderlying(tval) == IF tval = noT THEN "nil" ELSE tval

testrOptions ==
    [LogCaller |-> None, LogTimestamp |-> FALSE, Verbosity |-> 0,
     outputFormat |-> outputKeyValue]

\* logInfo / logError: the text handed to t.Log.
testrLine(r) ==
    IF r.prefix # sEmpty THEN r.prefix \o <<":", " ">> \o r.argsStr ELSE r.argsStr

MaxTestrSinks == 2

TestrOps == {"Info", "Error", "GetUnderlying", "GetCallStackHelper"}

TestrIdle ==
    [pc |-> "idle", op |-> "none", sink |-> 0, t |-> "nil", startedAfter |-> FALSE]

InitTestr ==
    /\ opts = testrOptions
    /\ arrays = << >>
    /\ viaLogr = FALSE
    /\ loggers = << >>
    /\ last = NoCall
    /\ callerArr = << >>
    /\ written = << >>
    /\ procs = << >>
    /\ rend = NoRender
    /\ testr = [t |-> "T", cleaned |-> FALSE, heap |-> << >>,
                sinks |-> <<[f |-> NewFormatter(testrOptions), after |-> FALSE]>>,
                calls |-> [g \in Goroutines |-> << >>], pcs |-> [g \in Goroutines |-> TestrIdle]]

TestrStep(new) ==
    /\ testr' = new
    /\ UNCHANGED <<opts, arrays, loggers, viaLogr, last, callerArr, written, procs, rend>>

\* testloggerInterface.WithName on the sink derived last: the copy shares t.
TestrWithName ==
    \E l \in {Len(testr.sinks)} :
      /\ Len(testr.sinks) <= MaxTestrSinks
      /\ TestrStep([testr EXCEPT !.sinks =
                      Append(@, [f |-> AddName(testr.sinks[l].f, <<"me">>),
                                 after |-> testr.cleaned])])

\* testloggerInterface.WithValues on the sink derived last: the copy shares t.
TestrWithValues ==
    \E l \in {Len(testr.sinks)} :
      /\ Len(testr.sinks) <= MaxTestrSinks
      /\ LET r == AddValues(testr.sinks[l].f, testr.heap,
                            <<VStr(<<"completed">>), VBool(TRUE)>>, 0)
         IN  TestrStep([testr EXCEPT !.heap = r.heap,
                                     !.sinks = Append(@, [f |-> r.f,
                                                          after |-> testr.cleaned])])

\* The function given to t.Cleanup: l.t.Store(&noT).
TestrCleanup ==
    /\ ~testr.cleaned
    /\ TestrStep([testr EXCEPT !.t = noT, !.cleaned = TRUE])

\* Goroutine g calls a method of sink l.
TestrCall(g) ==
    \E l \in 1..Len(testr.sinks), op \in TestrOps :
      /\ testr.pcs[g].pc = "idle"
      /\ TestrStep([testr EXCEPT !.pcs[g] =
                      [pc |-> "load", op |-> op, sink |-> l, t |-> "nil",
                       startedAfter |-> testr.cleaned]])

\* t := l.GetUnderlying(); Info and Error return when it is nil,
\* GetCallStackHelper returns a function that does nothing.
TestrLoad(g) ==
    LET fr == testr.pcs[g]
        t == testrGetUnderlying(testr.t)
        next == IF fr.op = "GetUnderlying" \/ t = "nil" THEN "done"
                ELSE IF fr.op = "GetCallStackHelper" THEN "helper"
                ELSE "helperInMethod"
    IN  /\ fr.pc = "load"
        /\ TestrStep([testr EXCEPT !.pcs[g].t = t, !.pcs[g].pc = next])

\* t.Helper(): by the function GetCallStackHelper returned, by Info or Error,
\* and by logInfo or logError after formatting.
TestrHelper(g) ==
    LET fr == testr.pcs[g]
        next == IF fr.pc = "helper" THEN "done"
                ELSE IF fr.pc = "helperInMethod" THEN "helperInLog"
                ELSE "log"
    IN  /\ fr.pc \in {"helper", "helperInMethod", "helperInLog"}
        /\ TestrStep([testr EXCEPT
                        !.calls[g] = Append(@, [method |-> "Helper", line |-> sEmpty,
                                             afterStore |-> testr.cleaned,
                                             startedAfter |-> fr.startedAfter]),
                        !.pcs[g].pc = next])

\* t.Log(args) in logInfo or logError.
TestrLog(g) ==
    LET fr == testr.pcs[g]
        f == testr.sinks[fr.sink].f
        r == IF fr.op = "Info"
             THEN FormatInfo(f, 0, <<"m">>, EmptySlice, sEmpty, StackAt(TRUE, FALSE))
             ELSE FormatError(f, VNil, <<"m">>, EmptySlice, sEmpty, StackAt(FALSE, FALSE))
    IN  /\ fr.pc = "log"
        /\ TestrStep([testr EXCEPT
                        !.calls[g] = Append(@, [method |-> "Log", line |-> testrLine(r),
                                             afterStore |-> testr.cleaned,
                                             startedAfter |-> fr.startedAfter]),
                        !.pcs[g].pc = "done"])

NextTestr ==
    \/ TestrWithName
    \/ TestrWithValues
    \/ TestrCleanup
    \/ \E g \in Goroutines : TestrCall(g)
    \/ \E g \in Goroutines : TestrLoad(g)
    \/ \E g \in Goroutines : TestrHelper(g)
    \/ \E g \in Goroutines : TestrLog(g)

SpecTestr == InitTestr /\ [][NextTestr]_vars

(***************************************************************************)
(* SpecSlog: the slog.Handler of package slogr over a LogSink.  One record *)
(* is logged, through slog.Logger (which asks Enabled and calls Handle     *)
(* only when it answers true) or by calling Handle directly; rend keeps    *)
(* the answer of Enabled, the levels the sink's Enabled was asked about    *)
(* and the calls the sink received.                                        *)
(***************************************************************************)
\* A Logger without a sink.
NilSink == [sink |-> "nil"]

slogLevel == [Debug |-> -4, Info |-> 0, Warn |-> 4, Error |-> 8]

\* levelFromSlog of package logr: the level alone, no bias.
levelFromSlogUnbiased(levelBias, level) == IF level >= 0 THEN 0 ELSE -level

\* slogHandler.levelFromSlog: negate, add the bias, and clamp at zero.
levelFromSlog(levelBias, level) ==
    LET result == (-level) + levelBias
    IN  IF result < 0 THEN 0 ELSE result

\* NewSlogHandler: the sink of the logger, two frames deeper, and the
\* logger's V level as bias.
NewSlogHandler(logger) ==
    [sink |-> IF logger.sink = NilSink THEN NilSink ELSE AddCallDepth(logger.sink, 2),
     groupPrefix |-> sEmpty,
     levelBias |-> logger.level]

\* The levels slogHandler.Enabled passes to the sink's Enabled.
slogHandlerAsked(h, level) ==
    IF h.sink # NilSink /\ level < slogLevel.Error
    THEN <<levelFromSlog(h.levelBias, level)>>
    ELSE << >>

\* Enabled that leaves every level to the sink.
slogHandlerEnabledBySink(h, level) ==
    h.sink # NilSink /\ Enabled(h.sink, levelFromSlog(h.levelBias, level))

slogHandlerEnabled(h, level) ==
    h.sink # NilSink /\
      (level >= slogLevel.Error \/ Enabled(h.sink, levelFromSlog(h.levelBias, level)))

addGroupPrefix(h, name) ==
    IF h.groupPrefix = sEmpty THEN name ELSE h.groupPrefix \o <<".">> \o name

RECURSIVE slogKvList(_, _)
\* The key/value list Handle builds: attributes with an empty key are left out.
slogKvList(h, attrs) ==
    IF attrs = << >> THEN << >>
    ELSE (IF attrs[1].key # sEmpty
          THEN <<VStr(addGroupPrefix(h, attrs[1].key)), attrs[1].value>>
          ELSE << >>) \o slogKvList(h, Tail(attrs))

\* slogHandler.Handle: the calls the sink receives.
slogHandlerHandle(h, record) ==
    IF record.level >= slogLevel.Error
    THEN <<[method |-> "Error", err |-> VNil, level |-> 0, msg |-> record.msg,
            kvList |-> slogKvList(h, record.attrs)]>>
    ELSE <<[method |-> "Info", err |-> VNil,
            level |-> levelFromSlog(h.levelBias, record.level), msg |-> record.msg,
            kvList |-> slogKvList(h, record.attrs)]>>

SlogVerbosities == {0, 1, 4, 10}

SlogOptions ==
    {[LogCaller |-> None, LogTimestamp |-> FALSE, Verbosity |-> v,
      outputFormat |-> outputKeyValue] : v \in SlogVerbosities}

SlogLevels == {-8, -5, -4, -1, 0, 2, 4, 7, 8, 9, 12}

\* The V level of the logger the handler is built from.
SlogVs == {0, 2, 4, 10}

SlogAttrs ==
    {<< >>,
     <<[key |-> <<"x">>, value |-> VInt(1)], [key |-> sEmpty, value |-> VInt(2)]>>}

SlogLog ==
    \E level \in SlogLevels, v \in SlogVs, attrs \in SlogAttrs,
       viaLogger \in BOOLEAN, nilSink \in BOOLEAN :
      LET logger == [sink |-> IF nilSink THEN NilSink ELSE loggers[1].f,
                     level |-> v]
          h == NewSlogHandler(logger)
          record == [level |-> level, msg |-> <<"m">>, attrs |-> attrs]
          enabled == slogHandlerEnabled(h, level)
      IN  /\ nilSink => viaLogger
          /\ Rendered([op |-> "slog", level |-> level, levelBias |-> h.levelBias,
                       viaLogger |-> viaLogger, nilSink |-> nilSink,
                       enabled |-> enabled,
                       asked |-> slogHandlerAsked(h, level),
                       calls |-> IF viaLogger /\ ~enabled THEN << >>
                                 ELSE slogHandlerHandle(h, record)])

InitSlog == InitWith(FALSE, SlogOptions)

NextSlog == SlogLog

SpecSlog == InitSlog /\ [][NextSlog]_vars

(***************************************************************************)
(* SpecValues: sinks derived by WithName, WithCallDepth and WithValues,    *)
(* with lists of odd and of even length, and log calls on them, under both *)
(* output formats.                                                         *)
(***************************************************************************)
InitValues == InitWith(FALSE, ConcOptions)

NextValues ==
    \/ WithName
    \/ WithValues
    \/ WithCallDepth
    \/ SinkInfo
    \/ SinkError
    \/ Return

SpecValues == InitValues /\ [][NextValues]_vars

(***************************************************************************)
(* What a sink was derived with, read off the chain of derivations that    *)
(* produced it, and the line the documentation lays out, built fragment by *)
(* fragment.                                                               *)
(***************************************************************************)
RECURSIVE ChainValues(_)
ChainValues(chain) ==
    IF chain = << >> THEN << >>
    ELSE (IF Head(chain).op = "WithValues" THEN Head(chain).arg ELSE << >>)
         \o ChainValues(Tail(chain))

RECURSIVE ChainNames(_)
ChainNames(chain) ==
    IF chain = << >> THEN << >>
    ELSE (IF Head(chain).op = "WithName" THEN <<Head(chain).arg>> ELSE << >>)
         \o ChainNames(Tail(chain))

RECURSIVE JoinWith(_, _)
JoinWith(parts, sep) ==
    IF parts = << >> THEN << >>
    ELSE IF Len(parts) = 1 THEN parts[1]
    ELSE parts[1] \o sep \o JoinWith(Tail(parts), sep)

FieldSep(outfmt) == IF outfmt = outputJSON THEN <<",">> ELSE <<" ">>

\* One "key" sep value fragment.
Fragment(outfmt, k, v) ==
    <<"\"">> \o (IF k.kind = "string" THEN k.str ELSE sNonStringKey) \o <<"\"">>
    \o (IF outfmt = outputJSON THEN <<":">> ELSE <<"=">>) \o pretty(v)

\* The fragments of a list of keys and values, a last key without a value
\* getting the placeholder.
RECURSIVE Fragments(_, _)
Fragments(outfmt, list) ==
    IF list = << >> THEN << >>
    ELSE IF Len(list) = 1 THEN <<Fragment(outfmt, list[1], VStr(sNoValue))>>
    ELSE <<Fragment(outfmt, list[1], list[2])>>
         \o Fragments(outfmt, SubSeq(list, 3, Len(list)))

\* The line made of the leading fields, the values saved along the chain and
\* the values of the call, in this order.
LineOf(outfmt, leading, chain, kvList) ==
    LET frags == Fragments(outfmt, leading) \o Fragments(outfmt, ChainValues(chain))
                 \o Fragments(outfmt, kvList)
        line == JoinWith(frags, FieldSep(outfmt))
    IN  IF outfmt = outputJSON THEN <<"{">> \o line \o <<"}">> ELSE line

\* The leading fields every line has: the logger's name in JSON mode, the
\* timestamp when configured, the caller when the policy covers the class.
LeadingOf(l, class, now, stack) ==
    (IF opts.outputFormat = outputJSON
     THEN <<VStr(sLogger), VStr(JoinWith(ChainNames(loggers[l].chain), <<"/">>))>>
     ELSE << >>)
    \o (IF opts.LogTimestamp THEN <<VStr(sTs), VStr(now)>> ELSE << >>)
    \o (IF opts.LogCaller \in {All, class}
        THEN <<VStr(sCaller), caller(loggers[l].f, stack)>> ELSE << >>)

IsLog == last.op \in {"Info", "Error"}

(***************************************************************************)
(* C1.  Deriving a sink never changes the sink it is derived from: in      *)
(* every step, every sink that exists keeps its name prefix, saved values  *)
(* (the slice and what it shows), pre-rendered saved string, call depth    *)
(* and configuration, and so formats a log call to the same prefix and     *)
(* body after the step as before it.                                       *)
(***************************************************************************)
C1_DerivingKeepsSource ==
    [][(loggers' = loggers /\ arrays' = arrays) \/
       \A l \in 1..Len(loggers) :
         /\ loggers'[l].f = loggers[l].f
         /\ View(arrays', loggers'[l].f.values) = View(arrays, loggers[l].f.values)
         /\ \A kv \in CallSlices :
              /\ FormatInfo(loggers'[l].f, 0, <<"m">>, kv, <<"t0">>, StackAt(TRUE, viaLogr))
                 = FormatInfo(loggers[l].f, 0, <<"m">>, kv, <<"t0">>, StackAt(TRUE, viaLogr))
              /\ FormatError(loggers'[l].f, VNil, <<"m">>, kv, <<"t0">>, StackAt(FALSE, viaLogr))
                 = FormatError(loggers[l].f, VNil, <<"m">>, kv, <<"t0">>, StackAt(FALSE, viaLogr))
      ]_vars

\* The root has been derived from twice, by name and by values, and then
\* the root logs.
C1_Witness ==
    /\ Len(loggers) >= 3
    /\ \E c \in 2..Len(loggers) :
         loggers[c].parent = 1 /\ loggers[c].chain[1].op = "WithValues"
    /\ \E c \in 2..Len(loggers) :
         loggers[c].parent = 1 /\ loggers[c].chain[1].op = "WithName"
    /\ last.op = "Info"
    /\ last.sink = 1
    /\ Len(written) = 1

(***************************************************************************)
(* C2.  Sibling sinks never interfere, under any interleaving of the calls *)
(* two goroutines make on distinct sinks derived from a common ancestor:   *)
(* no step of a deriving call or of a log call changes a sink that exists, *)
(* any slot of the backing array of a sink's saved values, or the call the *)
(* other goroutine is in and the backing array it works on; so every sink  *)
(* has the name, the saved values and the saved string of its own chain of *)
(* derivations, and every line written is the line of the chain of the     *)
(* sink it was logged through.                                             *)
(***************************************************************************)
ReflectsOwnChain ==
    /\ \A l \in 1..Len(loggers) :
         LET lg == loggers[l]
         IN  /\ lg.f.prefix = JoinWith(ChainNames(lg.chain), <<"/">>)
             /\ View(arrays, lg.f.values) = ChainValues(lg.chain)
             /\ lg.f.valuesStr =
                  JoinWith(Fragments(opts.outputFormat, ChainValues(lg.chain)),
                           FieldSep(opts.outputFormat))
    /\ \A g \in Goroutines :
         procs[g].pc = "write" =>
           /\ Len(procs[g].out) = 1
           /\ procs[g].out[1].args =
                LineOf(opts.outputFormat,
                       IF procs[g].op = "Info"
                       THEN LeadingOf(procs[g].sink, Info, sEmpty, StackAt(TRUE, FALSE))
                            \o <<VStr(sLevel), VInt(procs[g].level),
                                 VStr(sMsg), VStr(procs[g].msg)>>
                       ELSE LeadingOf(procs[g].sink, Error, sEmpty, StackAt(FALSE, FALSE))
                            \o <<VStr(sMsg), VStr(procs[g].msg), VStr(sError),
                                 IF procs[g].err = VNil THEN VNil
                                 ELSE VStr(procs[g].err.msg)>>,
                       loggers[procs[g].sink].chain, Passed(procs[g].kv))

C2_SiblingsDoNotInterfere ==
    /\ []ReflectsOwnChain
    /\ [][\A g \in Goroutines :
           procs'[g] # procs[g] =>
             /\ \A l \in 1..Len(loggers) :
                  /\ loggers'[l] = loggers[l]
                  /\ loggers[l].f.values.arr # 0 =>
                       arrays'[loggers[l].f.values.arr] = arrays[loggers[l].f.values.arr]
             /\ \A h \in Goroutines \ {g} :
                  /\ procs'[h] = procs[h]
                  /\ (procs[h].pc # "idle" /\ procs[h].f.values.arr # 0) =>
                       arrays'[procs[h].f.values.arr] = arrays[procs[h].f.values.arr]
        ]_vars

\* Both goroutines are inside AddValues, past the append, in calls on
\* distinct siblings that share the backing array of their common ancestor.
C2_Witness ==
    /\ procs[1].pc = "flatten"
    /\ procs[2].pc = "flatten"
    /\ procs[1].sink # procs[2].sink
    /\ loggers[procs[1].sink].f.values.arr # 0
    /\ loggers[procs[1].sink].f.values.arr = loggers[procs[2].sink].f.values.arr
    /\ procs[1].f.values.arr # procs[2].f.values.arr

(***************************************************************************)
(* C3.  Every Info or Error call that reaches the sink invokes the write   *)
(* callback exactly once, with the prefix and the body the Formatter       *)
(* builds for that call, before the call returns.                          *)
(***************************************************************************)
C3_SinkCallWritesOnce ==
    (IsLog /\ ~viaLogr) =>
      /\ Len(written) = 1
      /\ LET f == loggers[last.sink].f
             r == IF last.op = "Info"
                  THEN FormatInfo(f, last.level, last.msg, last.kv, last.now,
                                  StackAt(TRUE, FALSE))
                  ELSE FormatError(f, last.err, last.msg, last.kv, last.now,
                                   StackAt(FALSE, FALSE))
         IN  written[1] = [prefix |-> r.prefix, args |-> r.argsStr]

\* An Info call on a derived sink at a level above the threshold, written once.
C3_Witness ==
    /\ last.op = "Info"
    /\ ~viaLogr
    /\ ~Enabled(loggers[last.sink].f, last.level)
    /\ last.sink > 1
    /\ last.level > opts.Verbosity
    /\ Len(written) = 1

(***************************************************************************)
(* C4.  Error calls bypass the verbosity gate: whatever the threshold and  *)
(* however the sink was derived, an Error call reaches the write callback. *)
(***************************************************************************)
C4_ErrorAlwaysWritten ==
    last.op = "Error" =>
      /\ written # << >>
      /\ Contains(written[1].args, sError)

\* An Error call through the facade on a derived sink whose threshold
\* enables no level at all.
C4_Witness ==
    /\ last.op = "Error"
    /\ viaLogr
    /\ last.sink > 1
    /\ opts.Verbosity < 0
    /\ written # << >>

(***************************************************************************)
(* C5.  Enabled(level) is true exactly when level is at or below the       *)
(* threshold configured at construction; it is monotonic (enabled at n     *)
(* implies enabled at every m <= n); no derivation changes the threshold.  *)
(***************************************************************************)
C5_EnabledIffAtOrBelowThreshold ==
    /\ last.op = "Enabled" => (last.result <=> last.level <= opts.Verbosity)
    /\ \A l \in 1..Len(loggers) :
         /\ loggers[l].f.verbosity = opts.Verbosity
         /\ \A n, m \in EnabledLevels :
              (m <= n /\ Enabled(loggers[l].f, n)) => Enabled(loggers[l].f, m)

\* Enabled asked of a twice-derived sink exactly at the threshold.
C5_Witness ==
    /\ last.op = "Enabled"
    /\ last.sink > 1
    /\ Len(loggers[last.sink].chain) = 2
    /\ last.level = opts.Verbosity
    /\ last.result

(***************************************************************************)
(* C6.  An Info call through the facade at a level above the threshold is  *)
(* discarded: nothing is rendered (the caller's slice is left as it was)   *)
(* and the write callback is not invoked.  At or below the threshold it is *)
(* rendered and written.                                                   *)
(***************************************************************************)
C6_InfoGatedByThreshold ==
    (last.op = "Info" /\ viaLogr) =>
      IF last.level > opts.Verbosity
      THEN written = << >> /\ callerArr = last.kv.arr
      ELSE LET r == FormatInfo(loggers[last.sink].f, last.level, last.msg, last.kv,
                               last.now, StackAt(TRUE, TRUE))
           IN  /\ written = <<[prefix |-> r.prefix, args |-> r.argsStr]>>
               /\ callerArr = r.kvArr

\* An Info call through the facade one level above the threshold, discarded
\* although the slice passed has room for flatten to store into.
C6_Witness ==
    /\ last.op = "Info"
    /\ viaLogr
    /\ last.level = opts.Verbosity + 1
    /\ last.kv.len % 2 = 1
    /\ last.kv.len < Len(last.kv.arr)
    /\ written = << >>

\* An Info call through the facade exactly at the threshold, written.
C6_WitnessWritten ==
    /\ last.op = "Info"
    /\ viaLogr
    /\ last.level = opts.Verbosity
    /\ Len(written) = 1

(***************************************************************************)
(* C7.  In strict-JSON mode the prefix handed to the write callback is     *)
(* always the empty string and the logger's name appears only as the       *)
(* "logger" field of the body, for Info lines and for Error lines.         *)
(***************************************************************************)
C7_JSONPrefixEmpty ==
    (IsLog /\ opts.outputFormat = outputJSON /\ written # << >>) =>
      /\ written[1].prefix = sEmpty
      /\ LET name == JoinWith(ChainNames(loggers[last.sink].chain), <<"/">>)
             field == <<"{", "\"">> \o sLogger \o <<"\"", ":">> \o Quote(name)
         IN  SubSeq(written[1].args, 1, Len(field)) = field

\* The same for Info lines alone.
C7_JSONPrefixEmptyInfo ==
    (last.op = "Info" /\ opts.outputFormat = outputJSON /\ written # << >>) =>
      /\ written[1].prefix = sEmpty
      /\ LET name == JoinWith(ChainNames(loggers[last.sink].chain), <<"/">>)
             field == <<"{", "\"">> \o sLogger \o <<"\"", ":">> \o Quote(name)
         IN  SubSeq(written[1].args, 1, Len(field)) = field

(***************************************************************************)
(* C8.  An Info line has its fields in a fixed order: the logger's name    *)
(* (JSON mode only), the timestamp if enabled, the caller if the policy    *)
(* covers Info, "level", "msg", the saved values in the order they were    *)
(* added, the values of the call; exactly one separator stands between     *)
(* adjacent fields, none before the first, none after the last.            *)
(***************************************************************************)
C8_InfoLineOrder ==
    (last.op = "Info" /\ written # << >>) =>
      written[1].args =
        LineOf(opts.outputFormat,
               LeadingOf(last.sink, Info, last.now, StackAt(TRUE, viaLogr))
                 \o <<VStr(sLevel), VInt(last.level), VStr(sMsg), VStr(last.msg)>>,
               loggers[last.sink].chain, Passed(last.kv))

\* An Info line with timestamp, caller, saved values and values of the call.
C8_Witness ==
    /\ last.op = "Info"
    /\ opts.LogTimestamp
    /\ opts.LogCaller \in {All, Info}
    /\ ChainValues(loggers[last.sink].chain) # << >>
    /\ last.kv.len = 2
    /\ Len(written) = 1

(***************************************************************************)
(* C9.  An Error line has the same leading fields as an Info line but no   *)
(* "level" field; its "error" field comes right after "msg" and before the *)
(* saved values and the values of the call, and holds the error's message  *)
(* as a string, or null when the error is nil: it is never left out.       *)
(***************************************************************************)
C9_ErrorLineOrder ==
    (last.op = "Error" /\ written # << >>) =>
      /\ written[1].args =
           LineOf(opts.outputFormat,
                  LeadingOf(last.sink, Error, last.now, StackAt(FALSE, viaLogr))
                    \o <<VStr(sMsg), VStr(last.msg), VStr(sError),
                         IF last.err = VNil THEN VNil ELSE VStr(last.err.msg)>>,
                  loggers[last.sink].chain, Passed(last.kv))
      /\ ~Contains(written[1].args, sLevel)

\* An Error line for a nil error on a sink with saved values.
C9_Witness ==
    /\ last.op = "Error"
    /\ last.err = VNil
    /\ ChainValues(loggers[last.sink].chain) # << >>
    /\ Len(written) = 1
    /\ Contains(written[1].args, sError \o <<"\"">>)
    /\ Contains(written[1].args, sNull)

(***************************************************************************)
(* C10.  In delimited mode the prefix handed to the write callback is the  *)
(* name segments joined by "/" in the order they were added, empty when no *)
(* name was set, and the name is not part of the body.                     *)
(***************************************************************************)
C10_DelimitedPrefix ==
    (IsLog /\ opts.outputFormat = outputKeyValue /\ written # << >>) =>
      LET names == ChainNames(loggers[last.sink].chain)
      IN  /\ written[1].prefix = JoinWith(names, <<"/">>)
          /\ ~Contains(written[1].args, sLogger)
          /\ \A i \in 1..Len(names) : ~Contains(written[1].args, names[i])

\* A delimited line from a sink named twice with different segments.
C10_Witness ==
    /\ IsLog
    /\ opts.outputFormat = outputKeyValue
    /\ Len(written) = 1
    /\ LET names == ChainNames(loggers[last.sink].chain)
       IN  Len(names) = 2 /\ names[1] # names[2]

(***************************************************************************)
(* C11.  Call depth is additive: WithCallDepth(a) followed by              *)
(* WithCallDepth(b) gives the same depth and the same reported caller as   *)
(* WithCallDepth(a + b).  A sink built by newSink starts at depth 1, and   *)
(* the frame reported is depth + 2 above the function that resolves it: a  *)
(* sink derived with depths summing to k reports the file and line of the  *)
(* frame k levels above the direct caller of Info or Error ("<unknown>"    *)
(* and 0 when the stack has no such frame).                                *)
(***************************************************************************)
RECURSIVE ChainDepth(_)
ChainDepth(chain) ==
    IF chain = << >> THEN 0
    ELSE (IF Head(chain).op = "WithCallDepth" THEN Head(chain).arg[1] ELSE 0)
         + ChainDepth(Tail(chain))

\* The caller field for the frame k levels above the direct caller.
FrameAbove(k) ==
    IF k + 1 <= Len(AppStack)
    THEN callerID(<<AppStack[k + 1].file[Len(AppStack[k + 1].file)]>>, AppStack[k + 1].line)
    ELSE callerID(sUnknown, 0)

C11_CallDepthAdditive ==
    /\ \A l \in 1..Len(loggers) :
         LET f == loggers[l].f
         IN  /\ GetDepth(f) = 1 + ChainDepth(loggers[l].chain)
             /\ Idle => \A a, b \in CallerDepths :
                  LET two == fnloggerWithCallDepth(fnloggerWithCallDepth(f, a).ret, b).ret
                      one == fnloggerWithCallDepth(f, a + b).ret
                  IN  /\ two = one
                      /\ \A isInfo \in BOOLEAN :
                           /\ caller(two, StackAt(isInfo, FALSE))
                                = caller(one, StackAt(isInfo, FALSE))
                           /\ caller(two, StackAt(isInfo, FALSE))
                                = FrameAbove(ChainDepth(loggers[l].chain) + a + b)
    /\ (IsLog /\ written # << >> /\ opts.LogCaller = All) =>
         Contains(written[1].args,
                  Fragment(opts.outputFormat, VStr(sCaller),
                           FrameAbove(ChainDepth(loggers[last.sink].chain))))

\* A line from a sink derived twice, by 1 and then by 0 more, that reports
\* the frame one level above the direct caller.
C11_Witness ==
    /\ IsLog
    /\ opts.LogCaller = All
    /\ Len(written) = 1
    /\ LET chain == loggers[last.sink].chain
       IN  /\ Len(chain) = 2
           /\ ChainDepth(chain) = 1
           /\ Contains(written[1].args, <<"h.go">>)

(***************************************************************************)
(* C12.  The "caller" field is in an Info line exactly when the policy is  *)
(* All or Info, in an Error line exactly when it is All or Error; under    *)
(* None no line has it.                                                    *)
(***************************************************************************)
C12_CallerFieldByPolicy ==
    (IsLog /\ written # << >>) =>
      LET has == Contains(written[1].args, <<"\"">> \o sCaller \o <<"\"">>)
      IN  /\ (last.op = "Info" => (has <=> opts.LogCaller \in {All, Info}))
          /\ (last.op = "Error" => (has <=> opts.LogCaller \in {All, Error}))
          /\ (opts.LogCaller = None => ~has)

\* An Info line with the caller field under the policy Info.
C12_Witness ==
    /\ last.op = "Info"
    /\ opts.LogCaller = Info
    /\ Len(written) = 1
    /\ Contains(written[1].args, <<"\"">> \o sCaller \o <<"\"">>)

C14_NoEntryPointUnwinds ==
    /\ rend.op = "Enabled" => rend.result \in BOOLEAN
    /\ rend.op = "log" =>
         /\ ~rend.unwound
         /\ Len(rend.writes) = 1
         /\ LET line == rend.writes[1].args
                has(v) == \E i \in 1..Len(rend.kvList) : rend.kvList[i] = v
            IN  /\ Len(rend.kvList) % 2 = 1 => Contains(line, sNoValue)
                /\ has(VInt(5)) => Contains(line, sNonStringKey)
                /\ has(VOther(<<"chan">>)) => Contains(line, sUnhandled \o <<"chan">>)
                /\ rend.depth > 0 => Contains(line, pretty(callerID(sUnknown, 0)))
                /\ (~rend.isInfo /\ rend.err = VNil) =>
                     Contains(line, <<"\"">> \o sError \o <<"\"">>)

\* The part of C14 that holds: a call whose inputs are an odd list, a key
\* that is no string, a value of an unclassified kind, a nil error or a
\* stack shallower than the depth asked for returns and writes its line.
C14_DegradedInputsWritten ==
    (rend.op = "log" /\ \A i \in 1..Len(rend.kvList) : ~NilReceiver(rend.kvList[i])) =>
      ~rend.unwound /\ Len(rend.writes) = 1

(***************************************************************************)
(* C15.  The methods of a value take precedence in the order MarshalLog,   *)
(* String, Error, structure: a value with MarshalLog is rendered as the    *)
(* rendering of what MarshalLog returns, and its own String and Error are  *)
(* not used; a value with String and no MarshalLog is rendered as its      *)
(* String() result, quoted, even if it has Error too; a value with Error   *)
(* alone is rendered as its Error() result, quoted; only a value without   *)
(* any of them is rendered by its structure.                               *)
(***************************************************************************)
C15_HookPrecedence ==
    (rend.op = "pretty" /\ ~NilReceiver(rend.value)) =>
      LET h == HooksOf(rend.value)
      IN  /\ h.marshal # << >> => rend.out = pretty(h.marshal[1])
          /\ (h.marshal = << >> /\ h.string # << >>) => rend.out = Quote(h.string[1])
          /\ (h.marshal = << >> /\ h.string = << >> /\ h.error # << >>) =>
               rend.out = Quote(h.error[1])
          /\ h = NoHooks => \E v \in Orders(rend.value) : rend.out = prettyKind(v, {})

\* The part of C15 that holds: the order of precedence, with what
\* MarshalLog returns rendered by its String(), its Error() or its
\* structure, and its own MarshalLog not called.
C15_PrecedenceOneMarshal ==
    (rend.op = "pretty" /\ ~NilReceiver(rend.value)) =>
      LET h == HooksOf(rend.value)
          r == h.marshal[1]
          hr == HooksOf(r)
      IN  /\ h.marshal # << >> =>
               rend.out = IF hr.string # << >> THEN Quote(hr.string[1])
                          ELSE IF hr.error # << >> THEN Quote(hr.error[1])
                          ELSE prettyKind(r, {})
          /\ (h.marshal = << >> /\ h.string # << >>) => rend.out = Quote(h.string[1])
          /\ (h.marshal = << >> /\ h.string = << >> /\ h.error # << >>) =>
               rend.out = Quote(h.error[1])
          /\ h = NoHooks => \E v \in Orders(rend.value) : rend.out = prettyKind(v, {})

(***************************************************************************)
(* The standard JSON encoding (encoding/json) of a struct of exported      *)
(* fields holding integers: the members are the fields that are not        *)
(* omitted, in declaration order, joined by single commas.                 *)
(***************************************************************************)
JSONTagName(fld) ==
    IF ~fld.hasTag THEN sEmpty
    ELSE IF Index(fld.tag, ",") = 0 THEN fld.tag
    ELSE SubSeq(fld.tag, 1, Index(fld.tag, ",") - 1)

JSONOmitEmpty(fld) ==
    /\ fld.hasTag
    /\ Index(fld.tag, ",") # 0
    /\ Contains(SubSeq(fld.tag, Index(fld.tag, ",") + 1, Len(fld.tag)), <<"omitempty">>)

JSONOmitted(fld) ==
    \/ fld.hasTag /\ fld.tag = <<"-">>
    \/ JSONOmitEmpty(fld) /\ fld.val.kind = "int" /\ fld.val.num = 0

RECURSIVE JSONMembers(_)
JSONMembers(fields) ==
    IF fields = << >> THEN << >>
    ELSE (IF JSONOmitted(Head(fields)) THEN << >>
          ELSE <<Quote(IF JSONTagName(Head(fields)) = sEmpty THEN Head(fields).name
                       ELSE JSONTagName(Head(fields)))
                 \o <<":">> \o FormatInt(Head(fields).val.num)>>)
         \o JSONMembers(Tail(fields))

JSONObject(fields) == <<"{">> \o JoinWith(JSONMembers(fields), <<",">>) \o <<"}">>

IsTaggedStruct(v) ==
    /\ v.kind = "struct"
    /\ \A i \in 1..Len(v.fields) :
         /\ v.fields[i].val.kind = "int"
         /\ ~v.fields[i].anonymous
         /\ v.fields[i].pkgPath = sEmpty

(***************************************************************************)
(* C16.  For every struct whose fields are all exported, with any json tag *)
(* (a new name, "-" to omit, "-," for the name "-", omitempty on an empty  *)
(* or a non-empty value) on a field in any position, the first included,   *)
(* the rendering equals the standard JSON encoding: one object whose       *)
(* members are the fields not omitted, in declaration order, separated by  *)
(* single commas.                                                          *)
(***************************************************************************)
C16_TaggedStructIsJSON ==
    (rend.op = "pretty" /\ IsTaggedStruct(rend.value)) =>
      rend.out = JSONObject(rend.value.fields)

\* The part of C16 that holds: a struct whose first field is rendered.
C16_FirstFieldKept ==
    (rend.op = "pretty" /\ IsTaggedStruct(rend.value)
       /\ ~JSONOmitted(rend.value.fields[1])) =>
      rend.out = JSONObject(rend.value.fields)

(***************************************************************************)
(* The members of a struct with its embedded structs inlined: an embedded  *)
(* struct is replaced by its own members, inlined in turn, in order.       *)
(***************************************************************************)
RECURSIVE InlinedMembers(_)
InlinedMembers(fields) ==
    IF fields = << >> THEN << >>
    ELSE LET fld == Head(fields)
         IN  (IF fld.anonymous /\ fld.val.kind = "struct"
              THEN InlinedMembers(fld.val.fields)
              ELSE <<Quote(fld.name) \o <<":">>
                     \o (IF fld.val.kind = "int" THEN FormatInt(fld.val.num)
                         ELSE Quote(fld.val.str))>>)
             \o InlinedMembers(Tail(fields))

RECURSIVE Embeds(_)
Embeds(v) ==
    /\ v.kind = "struct"
    /\ \A i \in 1..Len(v.fields) :
         /\ ~v.fields[i].hasTag
         /\ IF v.fields[i].anonymous THEN Embeds(v.fields[i].val)
            ELSE v.fields[i].val.kind \in {"int", "string"}

HasEmbedded(v) == Embeds(v) /\ \E i \in 1..Len(v.fields) : v.fields[i].anonymous

\* Every struct embedded in v, at any depth, begins with a member.
RECURSIVE EmbeddedBeginWithMember(_)
EmbeddedBeginWithMember(v) ==
    \A i \in 1..Len(v.fields) :
      v.fields[i].anonymous =>
        /\ v.fields[i].val.fields # << >>
        /\ InlinedMembers(<<v.fields[i].val.fields[1]>>) # << >>
        /\ EmbeddedBeginWithMember(v.fields[i].val)

(***************************************************************************)
(* C17.  An embedded struct field without a name of its own is inlined at  *)
(* every depth of embedding: the rendering is the object whose members are *)
(* the struct's members with each embedded struct replaced by its own      *)
(* (inlined) members in order, with no nested object and with single       *)
(* commas between members, wherever the embedded field stands and however  *)
(* many members it contributes.                                            *)
(***************************************************************************)
C17_EmbeddedInlined ==
    (rend.op = "pretty" /\ HasEmbedded(rend.value)) =>
      rend.out = <<"{">> \o JoinWith(InlinedMembers(rend.value.fields), <<",">>) \o <<"}">>

\* The part of C17 that holds: every embedded struct begins with a member.
C17_NonEmptyInlined ==
    (rend.op = "pretty" /\ HasEmbedded(rend.value)
       /\ EmbeddedBeginWithMember(rend.value)) =>
      rend.out = <<"{">> \o JoinWith(InlinedMembers(rend.value.fields), <<",">>) \o <<"}">>

(***************************************************************************)
(* C18.  For every value x, a nil pointer (and the nil interface) renders  *)
(* as null, and a pointer to x that is not nil renders as x does.          *)
(***************************************************************************)
C18_PointersRenderAsPointee ==
    rend.op = "pretty" =>
      /\ rend.nilOut = sNull
      /\ rend.value = VNil => rend.out = sNull
      /\ rend.ptrOut = rend.out

\* The part of C18 that holds: x of a type without the three methods, and
\* without a map in it.
C18_PointersWithoutMethods ==
    (rend.op = "pretty" /\ HooksOf(rend.value) = NoHooks /\ Orders(rend.value) = {rend.value}) =>
      /\ rend.nilOut = sNull
      /\ rend.value = VNil => rend.out = sNull
      /\ rend.ptrOut = rend.out

(***************************************************************************)
(* Whether a value holds a map with two or more keys.                      *)
(***************************************************************************)
RECURSIVE HasMultiKeyMap(_)
HasMultiKeyMap(v) ==
    CASE v.kind = "map" -> Len(v.entries) >= 2
      [] v.kind = "slice" -> \E i \in 1..Len(v.elems) : HasMultiKeyMap(v.elems[i])
      [] v.kind = "struct" -> \E i \in 1..Len(v.fields) : HasMultiKeyMap(v.fields[i].val)
      [] v.kind = "ptr" -> HasMultiKeyMap(v.elem)
      [] OTHER -> FALSE

\* How often a symbol occurs in a string.
Occurrences(str, sym) == Cardinality({i \in 1..Len(str) : str[i] = sym})

C19_WitnessTwoOrders ==
    /\ rend.op = "pretty"
    /\ rend.value.kind = "map"
    /\ rend.again # rend.out

(***************************************************************************)
(* The standard JSON encoding (encoding/json) of the primitive values: a   *)
(* string in double quotes with '"' and '\' escaped by a backslash and a   *)
(* control character and '<', '>', '&' written as \u and four hex digits;  *)
(* a float with all its digits when 1e-6 <= |v| < 1e21 and with an         *)
(* exponent otherwise.                                                     *)
(***************************************************************************)
RECURSIVE JSONStringBody(_)
JSONStringBody(str) ==
    IF str = << >> THEN << >>
    ELSE (CASE Head(str) \in {"\"", "\\"} -> <<"\\", Head(str)>>
            [] Head(str) = cSOH -> <<"\\", "u", "0", "0", "0", "1">>
            [] Head(str) = "<" -> <<"\\", "u", "0", "0", "3", "c">>
            [] Head(str) = ">" -> <<"\\", "u", "0", "0", "3", "e">>
            [] Head(str) = "&" -> <<"\\", "u", "0", "0", "2", "6">>
            [] OTHER -> <<Head(str)>>)
         \o JSONStringBody(Tail(str))

JSONString(str) == <<"\"">> \o JSONStringBody(str) \o <<"\"">>

JSONFloat(mant, exp) ==
    LET d == FormatUint(IF mant < 0 THEN -mant ELSE mant)
        x == exp + Len(d) - 1
        sign == IF mant < 0 THEN <<"-">> ELSE << >>
    IN  IF mant = 0 THEN <<"0">>
        ELSE IF x < -6 \/ x >= 21
          THEN sign \o <<d[1]>>
               \o (IF Len(d) > 1 THEN <<".">> \o SubSeq(d, 2, Len(d)) ELSE << >>)
               \o <<"e", IF x < 0 THEN "-" ELSE "+">>
               \o FormatUint(IF x < 0 THEN -x ELSE x)
        ELSE FormatFloat(mant, exp)

JSONPrimitive(v) ==
    CASE v.kind = "bool" -> IF v.bool THEN <<"true">> ELSE <<"false">>
      [] v.kind = "int" ->
            IF v.num < 0 THEN <<"-">> \o FormatUint(-v.num) ELSE FormatUint(v.num)
      [] v.kind = "uint" -> FormatUint(v.num)
      [] v.kind = "float" -> JSONFloat(v.mant, v.exp)
      [] v.kind = "string" -> JSONString(v.str)

IsPrimitive(v) == v.kind \in {"bool", "int", "uint", "float", "string"}

(***************************************************************************)
(* C20.  For every value of a primitive type (bool, the signed and         *)
(* unsigned integers of every width, float32 and float64, string) the      *)
(* rendering equals the standard library's JSON encoding of the value.     *)
(***************************************************************************)
C20_PrimitivesAreJSON ==
    (rend.op = "pretty" /\ IsPrimitive(rend.value)) =>
      rend.out = JSONPrimitive(rend.value)

\* The part of C20 that holds: booleans, integers, floats that JSON writes
\* without an exponent, and strings without control characters and without
\* '<', '>', '&'.
C20_PlainPrimitivesAreJSON ==
    (/\ rend.op = "pretty"
     /\ IsPrimitive(rend.value)
     /\ rend.value.kind = "string" =>
          \A i \in 1..Len(rend.value.str) : rend.value.str[i] \notin {cSOH, "<", ">", "&"}
     /\ rend.value.kind = "float" =>
          LET x == rend.value.exp
                   + Len(FormatUint(IF rend.value.mant < 0 THEN -rend.value.mant
                                    ELSE rend.value.mant)) - 1
          IN  rend.value.mant = 0 \/ (x >= -6 /\ x < 21)) =>
      rend.out = JSONPrimitive(rend.value)

(***************************************************************************)
(* The JSON object a line is to be: the members "key":value in order, the  *)
(* key a JSON string, joined by single commas, in braces.                  *)
(***************************************************************************)
JSONMember(k, v) ==
    JSONString(IF k.kind = "string" THEN k.str ELSE sNonStringKey) \o <<":">>
    \o (IF v.kind = "string" THEN JSONString(v.str) ELSE pretty(v))

RECURSIVE JSONMembersOf(_)
JSONMembersOf(list) ==
    IF list = << >> THEN << >>
    ELSE IF Len(list) = 1 THEN <<JSONMember(list[1], VStr(sNoValue))>>
    ELSE <<JSONMember(list[1], list[2])>> \o JSONMembersOf(SubSeq(list, 3, Len(list)))

JSONLine(list) == <<"{">> \o JoinWith(JSONMembersOf(list), <<",">>) \o <<"}">>

\* The fields a line of the call recorded in rend begins with.
LogLeading ==
    <<VStr(sLogger), VStr(sEmpty), VStr(sCaller), FrameAbove(rend.depth)>>
    \o (IF rend.isInfo
        THEN <<VStr(sLevel), VInt(0), VStr(sMsg), VStr(rend.msg)>>
        ELSE <<VStr(sMsg), VStr(rend.msg), VStr(sError),
               IF rend.err = VNil THEN VNil ELSE VStr(rend.err.msg)>>)

PlainKeys(list) ==
    \A i \in 1..Len(list) :
      (i % 2 = 1 /\ list[i].kind = "string") =>
        \A j \in 1..Len(list[i].str) : list[i].str[j] \notin {"\"", "\\"}

(***************************************************************************)
(* C21.  In JSON mode every body written is one well-formed JSON object:   *)
(* it starts with "{" and ends with "}", its members are "key":value pairs *)
(* separated by single commas, and every key and every string value is a   *)
(* correctly quoted and escaped JSON string, for all messages, keys (keys  *)
(* holding a quote or a backslash included) and values.                    *)
(***************************************************************************)
C21_JSONBodyWellFormed ==
    (rend.op = "log" /\ opts.outputFormat = outputJSON /\ ~rend.unwound) =>
      rend.writes[1].args = JSONLine(LogLeading \o rend.kvList)

\* The part of C21 that holds: keys without a quote and without a backslash.
C21_PlainKeysWellFormed ==
    (rend.op = "log" /\ opts.outputFormat = outputJSON /\ ~rend.unwound
       /\ PlainKeys(rend.kvList)) =>
      rend.writes[1].args = JSONLine(LogLeading \o rend.kvList)

(***************************************************************************)
(* C22.  Once the cleanup of the test has run, every call of Info or Error *)
(* that starts afterwards on the testr logger or on a logger derived from  *)
(* it with WithName or WithValues, before or after the cleanup, is         *)
(* discarded: it calls neither Log nor Helper of the test object;          *)
(* GetUnderlying returns nil and GetCallStackHelper a function that does   *)
(* nothing.                                                                *)
(***************************************************************************)
C22_DiscardedAfterCleanup ==
    testr # NoTest =>
      /\ \A g \in Goroutines : \A i \in 1..Len(testr.calls[g]) :
           ~testr.calls[g][i].startedAfter
      /\ \A g \in Goroutines :
           LET fr == testr.pcs[g]
           IN  (fr.startedAfter /\ fr.pc \notin {"idle", "load"}) =>
                 fr.t = "nil" /\ fr.pc = "done"

\* Info called after the cleanup on a sink derived after the cleanup from a
\* sink derived before it, and returned from without a call on the test
\* object.
C22_Witness ==
    /\ testr # NoTest
    /\ \E g \in Goroutines :
         LET fr == testr.pcs[g]
         IN  /\ fr.op = "Info"
             /\ fr.startedAfter
             /\ fr.pc = "done"
             /\ fr.sink = 3
             /\ testr.sinks[3].after
             /\ ~testr.sinks[2].after
    /\ \A g \in Goroutines : testr.calls[g] = << >>

(***************************************************************************)
(* C28.  Under every interleaving of a goroutine running Info or Error on  *)
(* a testr logger with the cleanup of the test, no call of Log or Helper   *)
(* of the test object happens after the cleanup has stored the marker.     *)
(***************************************************************************)
C28_NoCallAfterStore ==
    testr # NoTest =>
      \A g \in Goroutines : \A i \in 1..Len(testr.calls[g]) : ~testr.calls[g][i].afterStore

(***************************************************************************)
(* C23.  For the slog handler built over a non-nil LogSink, every record   *)
(* with level >= slog.LevelError is enabled and is delivered with exactly  *)
(* one LogSink.Error call, with a nil error, whatever the verbosity of the *)
(* sink and the V level of the logger; every record below slog.LevelError  *)
(* is delivered with LogSink.Info and never with LogSink.Error.            *)
(***************************************************************************)
C23_ErrorRecordsAlwaysDelivered ==
    (rend.op = "slog" /\ ~rend.nilSink) =>
      IF rend.level >= slogLevel.Error
      THEN /\ rend.enabled
           /\ Len(rend.calls) = 1
           /\ rend.calls[1].method = "Error"
           /\ rend.calls[1].err = VNil
      ELSE /\ \A i \in 1..Len(rend.calls) : rend.calls[i].method = "Info"
           /\ (rend.enabled \/ ~rend.viaLogger) => Len(rend.calls) = 1

\* An error record logged through slog.Logger on a logger at V(10) over a
\* sink of verbosity 0, which the sink's Enabled would turn away.
C23_Witness ==
    /\ rend.op = "slog"
    /\ ~rend.nilSink
    /\ rend.viaLogger
    /\ rend.level = slogLevel.Error
    /\ rend.levelBias = 10
    /\ opts.Verbosity = 0
    /\ ~Enabled(loggers[1].f, levelFromSlog(rend.levelBias, rend.level))
    /\ Len(rend.calls) = 1

C25_CacheConsistent ==
    /\ \A l \in 1..Len(loggers) :
         LET f == loggers[l].f
         IN  /\ f.valuesStr = flatten(f, View(arrays, f.values), FALSE)
             /\ View(arrays, f.values) = ChainValues(loggers[l].chain)
    /\ (IsLog /\ Len(written) = 1) =>
         written[1].args =
           LineOf(opts.outputFormat,
                  IF last.op = "Info"
                  THEN LeadingOf(last.sink, Info, last.now, StackAt(TRUE, viaLogr))
                       \o <<VStr(sLevel), VInt(last.level), VStr(sMsg), VStr(last.msg)>>
                  ELSE LeadingOf(last.sink, Error, last.now, StackAt(FALSE, viaLogr))
                       \o <<VStr(sMsg), VStr(last.msg), VStr(sError),
                            IF last.err = VNil THEN VNil ELSE VStr(last.err.msg)>>,
                  loggers[last.sink].chain, Passed(last.kv))

\* A sink two WithValues calls away from the root, whose parent has gone on
\* to another derivation, logs a line.
C25_Witness ==
    /\ Len(loggers) >= 3
    /\ loggers[2].parent = 1
    /\ loggers[3].parent = 2
    /\ loggers[2].chain[1].op = "WithValues"
    /\ loggers[3].chain[2].op = "WithValues"
    /\ last.op = "Info"
    /\ last.sink = 3
    /\ Len(written) = 1
    /\ Len(loggers[3].f.valuesStr) > Len(loggers[2].f.valuesStr)

(***************************************************************************)
(* C26.  Flattening has no side effect on its input: FormatInfo,           *)
(* FormatError and AddValues leave the pair list of the caller and every   *)
(* slot of the storage it shares with the caller, the slots between its    *)
(* length and its capacity included, unchanged, also when the list is of   *)
(* odd length and the placeholder is appended.                             *)
(***************************************************************************)
C26_CallerStorageUnchanged ==
    IsLog => callerArr = last.kv.arr

\* The slots the caller's list shows are unchanged.
C26_PassedListUnchanged ==
    IsLog => /\ Len(callerArr) = Len(last.kv.arr)
             /\ SubSeq(callerArr, 1, last.kv.len) = Passed(last.kv)
             /\ (last.kv.len % 2 = 0 \/ last.kv.len = Len(last.kv.arr))
                  => callerArr = last.kv.arr

(***************************************************************************)
(* C29.  Key positions are stable across calls: an element at an even      *)
(* position of the list of a WithValues call or of an Info or Error call   *)
(* is always rendered as a key, never as a value, whatever the lengths,    *)
(* odd or even, of the lists given to earlier WithValues calls on the same *)
(* chain.                                                                  *)
(***************************************************************************)
RECURSIVE FragmentsByCall(_, _)
\* The fragments of the lists saved along a chain, each list on its own.
FragmentsByCall(outfmt, chain) ==
    IF chain = << >> THEN << >>
    ELSE (IF Head(chain).op = "WithValues"
          THEN Fragments(outfmt, Head(chain).arg) ELSE << >>)
         \o FragmentsByCall(outfmt, Tail(chain))

C29_KeyPositionsStable ==
    /\ \A l \in 1..Len(loggers) :
         loggers[l].f.valuesStr =
           JoinWith(FragmentsByCall(opts.outputFormat, loggers[l].chain),
                    FieldSep(opts.outputFormat))
    /\ (IsLog /\ Len(written) = 1) =>
         LET own == JoinWith(Fragments(opts.outputFormat, Passed(last.kv)),
                             FieldSep(opts.outputFormat))
             close == IF opts.outputFormat = outputJSON THEN <<"}">> ELSE << >>
         IN  HasSuffix(written[1].args, own \o close)

\* After lists of even length only, and in the list of the log call, every
\* element at an even position is rendered as a key.
C29_StableAfterEvenLists ==
    /\ \A l \in 1..Len(loggers) :
         (\A i \in 1..Len(loggers[l].chain) :
            loggers[l].chain[i].op = "WithValues"
              => (i = Len(loggers[l].chain) \/ Len(loggers[l].chain[i].arg) % 2 = 0))
         => loggers[l].f.valuesStr =
              JoinWith(FragmentsByCall(opts.outputFormat, loggers[l].chain),
                       FieldSep(opts.outputFormat))
    /\ (IsLog /\ Len(written) = 1) =>
         LET own == JoinWith(Fragments(opts.outputFormat, Passed(last.kv)),
                             FieldSep(opts.outputFormat))
             close == IF opts.outputFormat = outputJSON THEN <<"}">> ELSE << >>
         IN  HasSuffix(written[1].args, own \o close)

(***************************************************************************)
(* C30.  A value of a named string type renders identically to the plain   *)
(* string with the same contents, for every content, strings that hold a   *)
(* double quote or a backslash included.                                   *)
(***************************************************************************)
IsNamedString(v) == v.kind = "named" /\ v.under.kind = "string" /\ v.hooks = NoHooks

C30_NamedStringAsString ==
    (rend.op = "pretty" /\ IsNamedString(rend.value)) =>
      rend.out = pretty(rend.value.under)

\* Contents in which strconv.Quote escapes nothing render alike.
C30_PlainNamedStringAsString ==
    (rend.op = "pretty" /\ IsNamedString(rend.value)
       /\ QuoteBody(rend.value.under.str) = rend.value.under.str) =>
      rend.out = pretty(rend.value.under)

(***************************************************************************)
(* C27.  render terminates and returns a string for every input value,     *)
(* values whose graph of pointers, interfaces, slices or maps refers back  *)
(* to itself (a cycle) included; the work is bounded by the size of the    *)
(* graph of the value.                                                     *)
(***************************************************************************)
C27_RenderTerminates ==
    rend.op = "graph" => rend.out # sStackOverflow

\* Without a cycle render returns, and what it returns is as long as the
\* value unfolded is large; with a cycle it does not return.
C27_TerminatesWithoutCycle ==
    rend.op = "graph" => (rend.cyclic <=> rend.out = sStackOverflow)

====
